---- MODULE Spec2Model ----
(***************************************************************************)
(* Whirlpool position manager: the server's compose handlers               *)
(* (createOrDeposit, withdraw, collectFees, closePosition), the Whirlpool  *)
(* program state they read and their transactions change, and the          *)
(* dashboard's transaction flows.                                          *)
(*                                                                         *)
(* Instruction lists are kept at the level of Whirlpool-program            *)
(* instructions; the token-account plumbing the SDK builders add around    *)
(* them (associated-token-account creation, wSOL wrapping) is not listed.  *)
(***************************************************************************)
EXTENDS Integers, Sequences, FiniteSets, TLC

\* ------------------------------------------------------------------ bounds
\* Largest liquidity a position holds in the model (stands for the u128 cap).
MaxLiq == 2
\* Largest sum of the fees owed to a position in the two tokens.
FeeCap == 1
\* Largest subscription id onAccountChange hands out in the model.
MaxSubId == 2
\* Largest number of removeAccountChangeListener calls awaited at a time.
MaxPending == 2

Wallets == {"w1", "w2"}
\* Wallets that hold token balances: a deposit signed by any other wallet
\* fails on-chain at the token transfer.
Funded == {"w1"}
Pools == {"p1", "p2"}
Mints == {"m1", "m2"}
MalformedAddresses == {"bad"}
Sockets == {"s1", "s2"}
\* Raw tick indices a request carries.
RawTicks == {-3, -2, -1, 0}
Amounts == 1..MaxLiq
\* Decimal strings a request carries as price bounds, one character per element:
\* "0.25", ".25", "1", "0", "-1" and "x" as the lower one, "1", "1.0", "2" and "0" as
\* the upper one.
LowerPriceStrings ==
    {<<"0", ".", "2", "5">>, <<".", "2", "5">>, <<"1">>, <<"0">>, <<"-", "1">>, <<"x">>}
UpperPriceStrings == {<<"1">>, <<"1", ".", "0">>, <<"2">>, <<"0">>}
\* Percentages the withdraw slider is set to (WithdrawModal.tsx:18,251).
Percentages == {25, 50, 100}

\* whirlpoolData.tickSpacing of the modelled pools.
TickSpacing == 2
\* The price ratio of two neighbouring ticks: 1.0001 in PriceMath, taken larger here
\* so that the prices of the model are few ticks apart.
TickBase == 2

VARIABLES
    chain,      \* Whirlpool program state: position mint -> position account
    resp,       \* the response of the last handler call, and what became of its transaction
    resp2,      \* the response of a createOrDeposit call handled while resp was not yet submitted
    wd,         \* WithdrawModal: the position fetched by handleWithdraw, request not yet sent
    flow,           \* the component: CreatePositionPanel or one of the three modals
    isOpen,         \* its isOpen prop
    txStatus,       \* its txStatus state
    isSubmitting,   \* its isSubmitting state
    errorMessage,   \* its errorMessage state
    pc,             \* the await its handler is suspended at, "none" when none runs
    trail,          \* the values the running or last handler call passed to setTxStatus
    startedFrom,    \* txStatus when that handler call began
    txFate,         \* what became of the transaction that call sent
    log,            \* the calls that handler call awaited so far, with their outcomes
    env,            \* trading-api: process.env.MAX_SLIPPAGE_BPS, <<>> when unset
    trade,          \* trading-api: the last clampSlippage call and where its result went
    allClients,             \* websocket.ts: the connected sockets
    closedClients,          \* the sockets whose close event was handled
    wsWallet,               \* ws.wallet of each socket, "undefined" when not set
    clientsByWallet,        \* Map: wallet -> set of sockets
    accountSubscriptions,   \* Map: wallet -> subscription id
    listeners,              \* the account-change listeners registered on solanaConnection
    nextSubId,              \* the id onAccountChange returns next
    pendingRemovals,        \* the removeAccountChangeListener calls awaited
    currentPrice,       \* CreatePositionPanel: USD price of the displayed token, 0 until loaded
    minPrice,           \* the text of the lower price bound
    maxPrice,           \* the text of the upper price bound
    tokens,             \* the props tokenA and tokenB
    tokenAPriceUsd,
    tokenBPriceUsd,
    liquidityData,      \* the distribution the server sent, [] until loaded
    depositRatio,       \* what calculateDepositRatio returned in the last render
    chart,              \* what the chartBars memo holds
    ledger,     \* the chain states one position and its pool went through, the last one current
    handlerCall \* one compose handler call: the await it is at and what its fetches returned

composeVars == <<chain, resp, resp2, wd>>
tradeVars == <<env, trade>>
socketVars == <<allClients, closedClients, wsWallet, clientsByWallet, accountSubscriptions,
                listeners, nextSubId, pendingRemovals>>
panelVars == <<currentPrice, minPrice, maxPrice, tokens, tokenAPriceUsd, tokenBPriceUsd,
               liquidityData, depositRatio, chart>>
fetchVars == <<ledger, handlerCall>>
otherVars == <<tradeVars, socketVars, panelVars, fetchVars>>
flowVars == <<flow, isOpen, txStatus, isSubmitting, errorMessage, pc, trail, startedFrom, txFate,
             log>>
vars == <<chain, resp, resp2, wd, flow, isOpen, txStatus, isSubmitting, errorMessage, pc, trail,
          startedFrom, txFate, log, otherVars>>

NoResp == [handler |-> "none"]
NoWd == [mint |-> "none"]

\* ------------------------------------------------------------ addresses
WalletAddr(w) == <<"wallet", w>>
\* PublicKey.findProgramAddressSync(["position", mint], ORCA_WHIRLPOOL_PROGRAM_ID)
Pda(m) == <<"position", m>>

\* ------------------------------------------------------------ instructions
Ix(op, m, liq, pool, tl, tu) ==
    [op |-> op, mint |-> m, liq |-> liq, pool |-> pool, tickLower |-> tl, tickUpper |-> tu]
OpenPositionIx(m, pool, tl, tu) == Ix("openPosition", m, 0, pool, tl, tu)
IncreaseLiquidityIx(m, liq) == Ix("increaseLiquidity", m, liq, "-", 0, 0)
DecreaseLiquidityIx(m, liq) == Ix("decreaseLiquidity", m, liq, "-", 0, 0)
UpdateFeesAndRewardsIx(m) == Ix("updateFeesAndRewards", m, 0, "-", 0, 0)
CollectFeesIx(m) == Ix("collectFees", m, 0, "-", 0, 0)
ClosePositionIx(m) == Ix("closePosition", m, 0, "-", 0, 0)

Ops(ixs) == [i \in 1..Len(ixs) |-> ixs[i].op]


\* ------------------------------------------------- Whirlpool program state
\* The account openPosition creates: no liquidity, no fees owed.
NewPosition(owner, pool, tl, tu) ==
    [owner |-> owner, whirlpool |-> pool, tickLowerIndex |-> tl, tickUpperIndex |-> tu,
     liquidity |-> 0, feeOwedA |-> 0, feeOwedB |-> 0]

ExecOk(c) == [ok |-> TRUE, chain |-> c]
ExecFail(c) == [ok |-> FALSE, chain |-> c]

Authorized(c, signer, m) == m \in DOMAIN c /\ c[m].owner = signer

\* One instruction executed by the Whirlpool program for the transaction's signer.
ExecIx(c, signer, ix) ==
    LET m == ix.mint IN
    CASE ix.op = "openPosition" ->
            IF /\ m \notin DOMAIN c
               /\ ix.tickLower < ix.tickUpper
               /\ ix.tickLower % TickSpacing = 0
               /\ ix.tickUpper % TickSpacing = 0
            THEN ExecOk(c @@ (m :> NewPosition(signer, ix.pool, ix.tickLower, ix.tickUpper)))
            ELSE ExecFail(c)
      [] ix.op = "increaseLiquidity" ->
            IF /\ Authorized(c, signer, m)
               /\ signer \in Funded
               /\ ix.liq > 0
               /\ c[m].liquidity + ix.liq <= MaxLiq
            THEN ExecOk([c EXCEPT ![m].liquidity = @ + ix.liq])
            ELSE ExecFail(c)
      [] ix.op = "decreaseLiquidity" ->
            IF /\ Authorized(c, signer, m)
               /\ ix.liq > 0
               /\ ix.liq <= c[m].liquidity
            THEN ExecOk([c EXCEPT ![m].liquidity = @ - ix.liq])
            ELSE ExecFail(c)
      [] ix.op = "updateFeesAndRewards" ->
            \* LiquidityZero: a position without liquidity cannot be updated
            IF m \in DOMAIN c /\ c[m].liquidity > 0 THEN ExecOk(c) ELSE ExecFail(c)
      [] ix.op = "collectFees" ->
            IF Authorized(c, signer, m)
            THEN ExecOk([c EXCEPT ![m].feeOwedA = 0, ![m].feeOwedB = 0])
            ELSE ExecFail(c)
      [] ix.op = "closePosition" ->
            \* ClosePositionNotEmpty
            IF /\ Authorized(c, signer, m)
               /\ c[m].liquidity = 0
               /\ c[m].feeOwedA = 0
               /\ c[m].feeOwedB = 0
            THEN ExecOk([x \in DOMAIN c \ {m} |-> c[x]])
            ELSE ExecFail(c)
      [] OTHER -> ExecFail(c)

\* A transaction is atomic: the first failing instruction leaves the state as it was.
RECURSIVE ExecFrom(_, _, _, _, _)
ExecFrom(c0, c, signer, ixs, i) ==
    IF i > Len(ixs) THEN ExecOk(c)
    ELSE LET r == ExecIx(c, signer, ixs[i]) IN
         IF r.ok THEN ExecFrom(c0, r.chain, signer, ixs, i + 1) ELSE ExecFail(c0)

ExecTx(c, signer, ixs) == ExecFrom(c, c, signer, ixs, 1)

\* ------------------------------------------------------------ SDK calls
\* JavaScript %: the remainder takes the sign of the dividend.
JsRem(a, b) == IF a >= 0 THEN a % b ELSE -((-a) % b)

\* TickUtil.getInitializableTickIndex(tickIndex, tickSpacing)
getInitializableTickIndex(tickIndex, tickSpacing) == tickIndex - JsRem(tickIndex, tickSpacing)

\* The characters new Decimal(value) reads as digits.
DigitChars == <<"0", "1", "2", "3", "4", "5", "6", "7", "8", "9">>
IsDigit(ch) == \E d \in 1..10 : DigitChars[d] = ch
DigitValue(ch) == (CHOOSE d \in 1..10 : DigitChars[d] = ch) - 1

RECURSIVE DigitsValue(_)
\* The number a sequence of digit characters writes.
DigitsValue(chars) ==
    IF chars = <<>> THEN 0
    ELSE 10 * DigitsValue(SubSeq(chars, 1, Len(chars) - 1)) + DigitValue(chars[Len(chars)])

RECURSIVE PowerOfTen(_)
PowerOfTen(n) == IF n = 0 THEN 1 ELSE 10 * PowerOfTen(n - 1)

\* new Decimal(value) for a string of an optional sign, digits and at most one point:
\* the value is num / den; anything else throws.
Decimal(str) ==
    LET negative == str # <<>> /\ str[1] = "-"
        body == IF negative THEN Tail(str) ELSE str
        points == {i \in 1..Len(body) : body[i] = "."}
        point == IF points = {} THEN Len(body) + 1 ELSE CHOOSE i \in points : TRUE
        whole == SubSeq(body, 1, point - 1)
        fraction == SubSeq(body, point + 1, Len(body))
        wellFormed ==
            /\ Cardinality(points) <= 1
            /\ Len(whole) + Len(fraction) > 0
            /\ \A i \in 1..Len(body) : i \in points \/ IsDigit(body[i])
    IN  IF ~wellFormed
        THEN [ok |-> FALSE, num |-> 0, den |-> 1, error |-> "[DecimalError] Invalid argument"]
        ELSE [ok |-> TRUE,
              num |-> (IF negative THEN -1 ELSE 1) * DigitsValue(whole \o fraction),
              den |-> PowerOfTen(Len(fraction)), error |-> ""]

RECURSIVE FloorLog(_, _)
\* The largest k with TickBase^k <= num / den, for num > 0.
FloorLog(num, den) ==
    IF num < den THEN FloorLog(num * TickBase, den) - 1
    ELSE IF num >= den * TickBase THEN FloorLog(num, den * TickBase) + 1
    ELSE 0

\* Variant of priceToTickIndex that gives a price that is not positive the lowest tick.
priceToTickIndex_Unchecked(price) ==
    IF price.num <= 0
    THEN [ok |-> TRUE, tick |-> -2, error |-> ""]
    ELSE [ok |-> TRUE, tick |-> FloorLog(price.num, price.den), error |-> ""]

\* PriceMath.priceToTickIndex(price, decimalsA, decimalsB) for tokens of equal decimals:
\* a price that is not positive has no square root price in the supported range.
priceToTickIndex(price) ==
    IF price.num <= 0
    THEN [ok |-> FALSE, tick |-> 0,
          error |-> "Provided sqrtPrice is not within the supported sqrtPrice range."]
    ELSE [ok |-> TRUE, tick |-> FloorLog(price.num, price.den), error |-> ""]

\* client.getPositions(addresses): the Position account at each given address, null
\* where the account at that address is no Position. The mints of the non-null ones.
getPositions(c, addresses) == {m \in DOMAIN c : Pda(m) \in addresses}

\* client.getPosition(address) throws unless a Position account is at the address.
getPositionThrows(c, address) == ~(\E m \in DOMAIN c : Pda(m) = address)

\* increaseLiquidityQuoteByInputToken(tokenA.mint, amountA, tickLower, tickUpper, ...)
increaseLiquidityQuoteByInputToken(amountA, tickLower, tickUpper) ==
    IF tickLower < tickUpper
    THEN [ok |-> TRUE, liquidityAmount |-> amountA, error |-> ""]
    ELSE [ok |-> FALSE, liquidityAmount |-> 0,
          error |-> "tickLowerIndex must be less than tickUpperIndex"]

\* decreaseLiquidityQuoteByLiquidity(liquidity, slippage, position, whirlpool, ctx)
decreaseLiquidityQuoteByLiquidity(liquidity, positionLiquidity) ==
    IF liquidity <= positionLiquidity
    THEN [ok |-> TRUE, liquidityAmount |-> liquidity, error |-> ""]
    ELSE [ok |-> FALSE, liquidityAmount |-> 0,
          error |-> "Quote liquidity is more than the position liquidity."]

\* position.collectFees(): updateFeesAndRewards is added only for a position that has
\* liquidity; collectFees is added whatever the fees owed are.
SdkCollectFees(m, positionLiquidity) ==
    (IF positionLiquidity # 0 THEN <<UpdateFeesAndRewardsIx(m)>> ELSE <<>>)
        \o <<CollectFeesIx(m)>>

\* 'instructions' in collectBuild.transaction: a legacy Transaction has the property,
\* a VersionedTransaction does not.
HasInstructionsProperty(version) == version = "legacy"
TxVersions == {"legacy", "v0"}
\* txBuilder.addInstruction(ix) is handed the raw instructions of a built legacy
\* transaction, typed any; the builder either takes them or its build() throws.
RawIxOutcomes == {"merged", "throws"}
\* The behaviours of the installed SDK a closePosition call can meet.
SdkBuilds == [version : TxVersions, rawIx : RawIxOutcomes]
\* txBuilder.build() throws on what the forEach added.
BuildThrows(positionLiquidity, sdk) ==
    /\ positionLiquidity # 0
    /\ HasInstructionsProperty(sdk.version)
    /\ sdk.rawIx = "throws"


\* ------------------------------------------------------------ handlers
\* What a handler call yields. handler, via, wallet, mint, pool, tickLower, tickUpper,
\* reqLiq and pct echo the request; posLiq, feeA and feeB are the position data the
\* handler read; the rest is the JSON result, ixs being the instructions of
\* serializedTransaction (empty when there is none). listed is the liquidity the
\* position list showed when the call came from ClosePositionModal, -1 otherwise.
Response(handler, wallet, m, pool, tl, tu, reqLiq, posLiq, feeA, feeB, success, error, isNewPosition, ixs) ==
    [handler |-> handler, via |-> "api", wallet |-> wallet, mint |-> m, pool |-> pool,
     tickLower |-> tl, tickUpper |-> tu, reqLiq |-> reqLiq, pct |-> 0,
     posLiq |-> posLiq, feeA |-> feeA, feeB |-> feeB,
     success |-> success, error |-> error, isNewPosition |-> isNewPosition,
     ixs |-> ixs, refused |-> FALSE, listed |-> -1, stage |-> "composed"]

\* new PublicKey(address) throws for a string that is not a base58 key of 32 bytes.
PublicKeyThrows(address) == address \in MalformedAddresses

\* The handler threw: its promise is rejected and the route answers with status 500.
Thrown(handler) ==
    [Response(handler, "-", "none", "-", 0, 0, 0, 0, 0, 0, FALSE,
              "Invalid public key input", FALSE, <<>>)
        EXCEPT !.stage = "thrown"]

\* The positions of the wallet that createOrDeposit's loop accepts as existing.
ExistingPositions(request, c, tickLower, tickUpper) ==
    {m \in getPositions(c, {WalletAddr(request.wallet)}) :
        /\ c[m].whirlpool = request.whirlpool
        /\ c[m].tickLowerIndex = tickLower
        /\ c[m].tickUpperIndex = tickUpper}

\* The tick of one requested price bound.
PriceBoundTick(str) ==
    LET price == Decimal(str) IN
    IF ~price.ok THEN [ok |-> FALSE, tick |-> 0, error |-> price.error]
    ELSE priceToTickIndex(price)

\* The ticks createOrDeposit aligns: those of the prices if both are given, else the
\* tick indices if both are given. An absent field is the empty sequence.
RequestedTicks(request) ==
    IF request.priceLower # <<>> /\ request.priceUpper # <<>>
    THEN LET lower == PriceBoundTick(request.priceLower)
             upper == PriceBoundTick(request.priceUpper)
         IN  IF ~lower.ok THEN [ok |-> FALSE, lower |-> 0, upper |-> 0, error |-> lower.error]
             ELSE IF ~upper.ok
             THEN [ok |-> FALSE, lower |-> 0, upper |-> 0, error |-> upper.error]
             ELSE [ok |-> TRUE, lower |-> lower.tick, upper |-> upper.tick, error |-> ""]
    ELSE IF request.tickLower # <<>> /\ request.tickUpper # <<>>
    THEN [ok |-> TRUE, lower |-> request.tickLower[1], upper |-> request.tickUpper[1],
          error |-> ""]
    ELSE [ok |-> FALSE, lower |-> 0, upper |-> 0,
          error |-> "Must provide either tick indices or prices"]

\* Variant of createOrDeposit that deposits into any position the wallet holds.
createOrDeposit_MatchesAnyPosition(request, c, newMint) ==
    IF PublicKeyThrows(request.wallet) \/ PublicKeyThrows(request.whirlpool)
    THEN Thrown("createOrDeposit")
    ELSE
    LET ticks == RequestedTicks(request) IN
    IF ~ticks.ok
    THEN Response("createOrDeposit", request.wallet, "none", request.whirlpool,
                  0, 0, 0, 0, 0, 0, FALSE, ticks.error, FALSE, <<>>)
    ELSE
    LET tickLower == getInitializableTickIndex(ticks.lower, TickSpacing)
        tickUpper == getInitializableTickIndex(ticks.upper, TickSpacing)
        found == {m \in DOMAIN c : c[m].owner = request.wallet}
        existingPosition == CHOOSE m \in found : TRUE
        quote == increaseLiquidityQuoteByInputToken(request.amountA, tickLower, tickUpper)
    IN  IF ~quote.ok
        THEN Response("createOrDeposit", request.wallet, "none", request.whirlpool,
                      tickLower, tickUpper, 0, 0, 0, 0, FALSE, quote.error, FALSE, <<>>)
        ELSE IF found = {}
        THEN Response("createOrDeposit", request.wallet, newMint, request.whirlpool,
                      tickLower, tickUpper, 0, 0, 0, 0, TRUE, "", TRUE,
                      <<OpenPositionIx(newMint, request.whirlpool, tickLower, tickUpper),
                        IncreaseLiquidityIx(newMint, quote.liquidityAmount)>>)
        ELSE Response("createOrDeposit", request.wallet, existingPosition, request.whirlpool,
                      tickLower, tickUpper, 0, c[existingPosition].liquidity, 0, 0,
                      TRUE, "", FALSE,
                      <<IncreaseLiquidityIx(existingPosition, quote.liquidityAmount)>>)

\* createOrDeposit(request); newMint is the keypair openPosition generates.
createOrDeposit(request, c, newMint) ==
    IF PublicKeyThrows(request.wallet) \/ PublicKeyThrows(request.whirlpool)
    THEN Thrown("createOrDeposit")
    ELSE
    LET ticks == RequestedTicks(request) IN
    IF ~ticks.ok
    THEN Response("createOrDeposit", request.wallet, "none", request.whirlpool,
                  0, 0, 0, 0, 0, 0, FALSE, ticks.error, FALSE, <<>>)
    ELSE
    LET tickLower == getInitializableTickIndex(ticks.lower, TickSpacing)
        tickUpper == getInitializableTickIndex(ticks.upper, TickSpacing)
        found == ExistingPositions(request, c, tickLower, tickUpper)
        isNewPosition == found = {}
        existingPosition == CHOOSE m \in found : TRUE
        quote == increaseLiquidityQuoteByInputToken(request.amountA, tickLower, tickUpper)
    IN  IF ~quote.ok
        THEN Response("createOrDeposit", request.wallet, "none", request.whirlpool,
                      tickLower, tickUpper, 0, 0, 0, 0, FALSE, quote.error, FALSE, <<>>)
        ELSE IF isNewPosition
        THEN Response("createOrDeposit", request.wallet, newMint, request.whirlpool,
                      tickLower, tickUpper, 0, 0, 0, 0, TRUE, "", TRUE,
                      <<OpenPositionIx(newMint, request.whirlpool, tickLower, tickUpper),
                        IncreaseLiquidityIx(newMint, quote.liquidityAmount)>>)
        ELSE Response("createOrDeposit", request.wallet, existingPosition, request.whirlpool,
                      tickLower, tickUpper, 0, c[existingPosition].liquidity, 0, 0,
                      TRUE, "", FALSE,
                      <<IncreaseLiquidityIx(existingPosition, quote.liquidityAmount)>>)

\* Variant of withdraw that composes the removal whatever the quote says.
withdraw_IgnoresQuote(request, c) ==
    IF PublicKeyThrows(request.wallet) \/ PublicKeyThrows(request.positionMint)
    THEN Thrown("withdraw")
    ELSE
    LET m == request.positionMint IN
    IF getPositionThrows(c, Pda(m))
    THEN Response("withdraw", request.wallet, m, "-", 0, 0, request.liquidity, 0, 0, 0,
                  FALSE, "Unable to fetch Position at address", FALSE, <<>>)
    ELSE LET positionData == c[m] IN
         Response("withdraw", request.wallet, m, positionData.whirlpool, 0, 0,
                  request.liquidity, positionData.liquidity, 0, 0, TRUE, "", FALSE,
                  <<DecreaseLiquidityIx(m, request.liquidity)>>)

\* Variant of withdraw that also closes the position when the whole liquidity goes.
withdraw_ClosesWhenFull(request, c) ==
    IF PublicKeyThrows(request.wallet) \/ PublicKeyThrows(request.positionMint)
    THEN Thrown("withdraw")
    ELSE
    LET m == request.positionMint IN
    IF getPositionThrows(c, Pda(m))
    THEN Response("withdraw", request.wallet, m, "-", 0, 0, request.liquidity, 0, 0, 0,
                  FALSE, "Unable to fetch Position at address", FALSE, <<>>)
    ELSE LET positionData == c[m]
             quote == decreaseLiquidityQuoteByLiquidity(request.liquidity,
                                                        positionData.liquidity)
         IN  IF ~quote.ok
             THEN Response("withdraw", request.wallet, m, positionData.whirlpool, 0, 0,
                           request.liquidity, positionData.liquidity, 0, 0,
                           FALSE, quote.error, FALSE, <<>>)
             ELSE Response("withdraw", request.wallet, m, positionData.whirlpool, 0, 0,
                           request.liquidity, positionData.liquidity, 0, 0,
                           TRUE, "", FALSE,
                           <<DecreaseLiquidityIx(m, quote.liquidityAmount)>>
                             \o (IF quote.liquidityAmount = positionData.liquidity
                                 THEN <<ClosePositionIx(m)>> ELSE <<>>))

\* withdraw(request)
withdraw(request, c) ==
    IF PublicKeyThrows(request.wallet) \/ PublicKeyThrows(request.positionMint)
    THEN Thrown("withdraw")
    ELSE
    LET m == request.positionMint IN
    IF getPositionThrows(c, Pda(m))
    THEN Response("withdraw", request.wallet, m, "-", 0, 0, request.liquidity, 0, 0, 0,
                  FALSE, "Unable to fetch Position at address", FALSE, <<>>)
    ELSE LET positionData == c[m]
             quote == decreaseLiquidityQuoteByLiquidity(request.liquidity,
                                                        positionData.liquidity)
         IN  IF ~quote.ok
             THEN Response("withdraw", request.wallet, m, positionData.whirlpool, 0, 0,
                           request.liquidity, positionData.liquidity, 0, 0,
                           FALSE, quote.error, FALSE, <<>>)
             ELSE Response("withdraw", request.wallet, m, positionData.whirlpool, 0, 0,
                           request.liquidity, positionData.liquidity, 0, 0,
                           TRUE, "", FALSE,
                           <<DecreaseLiquidityIx(m, quote.liquidityAmount)>>)

\* Variant of collectFees that leaves the instruction list to position.collectFees().
collectFees_ViaSdk(request, c) ==
    IF PublicKeyThrows(request.wallet) \/ PublicKeyThrows(request.positionMint)
    THEN Thrown("collectFees")
    ELSE
    LET m == request.positionMint IN
    IF getPositionThrows(c, Pda(m))
    THEN Response("collectFees", request.wallet, m, "-", 0, 0, 0, 0, 0, 0,
                  FALSE, "Unable to fetch Position at address", FALSE, <<>>)
    ELSE LET positionData == c[m] IN
         Response("collectFees", request.wallet, m, positionData.whirlpool, 0, 0, 0,
                  positionData.liquidity, positionData.feeOwedA, positionData.feeOwedB,
                  TRUE, "", FALSE, SdkCollectFees(m, positionData.liquidity))

\* collectFees(request)
collectFees(request, c) ==
    IF PublicKeyThrows(request.wallet) \/ PublicKeyThrows(request.positionMint)
    THEN Thrown("collectFees")
    ELSE
    LET m == request.positionMint IN
    IF getPositionThrows(c, Pda(m))
    THEN Response("collectFees", request.wallet, m, "-", 0, 0, 0, 0, 0, 0,
                  FALSE, "Unable to fetch Position at address", FALSE, <<>>)
    ELSE LET positionData == c[m] IN
         Response("collectFees", request.wallet, m, positionData.whirlpool, 0, 0, 0,
                  positionData.liquidity, positionData.feeOwedA, positionData.feeOwedB,
                  TRUE, "", FALSE,
                  <<UpdateFeesAndRewardsIx(m), CollectFeesIx(m)>>)

\* Variant of CloseInstructions that merges only the collectFees instruction.
CloseInstructions_CollectOnly(m, positionLiquidity, version) ==
    IF positionLiquidity # 0
    THEN <<DecreaseLiquidityIx(m, positionLiquidity)>>
            \o (IF HasInstructionsProperty(version) THEN <<CollectFeesIx(m)>> ELSE <<>>)
    ELSE SdkCollectFees(m, positionLiquidity)

\* Variant of CloseInstructions that starts an empty position's list without collectFees.
CloseInstructions_SkipCollect(m, positionLiquidity, version) ==
    IF positionLiquidity # 0
    THEN <<DecreaseLiquidityIx(m, positionLiquidity)>>
            \o (IF HasInstructionsProperty(version)
                THEN SdkCollectFees(m, positionLiquidity) ELSE <<>>)
    ELSE <<>>

\* The instructions closePosition puts in txBuilder before the close instruction;
\* version is the kind of transaction collectTxBuilder.build() returns.
CloseInstructions(m, positionLiquidity, version) ==
    IF positionLiquidity # 0
    THEN <<DecreaseLiquidityIx(m, positionLiquidity)>>
            \o (IF HasInstructionsProperty(version)
                THEN SdkCollectFees(m, positionLiquidity) ELSE <<>>)
    ELSE SdkCollectFees(m, positionLiquidity)

\* closePosition(request)
closePosition(request, c, sdk) ==
    IF PublicKeyThrows(request.wallet) \/ PublicKeyThrows(request.positionMint)
    THEN Thrown("closePosition")
    ELSE
    LET m == request.positionMint IN
    IF getPositionThrows(c, Pda(m))
    THEN Response("closePosition", request.wallet, m, "-", 0, 0, 0, 0, 0, 0,
                  FALSE, "Unable to fetch Position at address", FALSE, <<>>)
    ELSE LET positionData == c[m] IN
         IF BuildThrows(positionData.liquidity, sdk)
         THEN Response("closePosition", request.wallet, m, positionData.whirlpool, 0, 0, 0,
                       positionData.liquidity, positionData.feeOwedA,
                       positionData.feeOwedB, FALSE,
                       "Cannot read properties of undefined", FALSE, <<>>)
         ELSE
         Response("closePosition", request.wallet, m, positionData.whirlpool, 0, 0, 0,
                  positionData.liquidity, positionData.feeOwedA, positionData.feeOwedB,
                  TRUE, "", FALSE,
                  CloseInstructions(m, positionData.liquidity, sdk.version)
                      \o <<ClosePositionIx(m)>>)


\* ------------------------------------------------------------ dashboard
RECURSIVE Digits(_)
\* The decimal digits of n >= 0, most significant first.
Digits(n) == IF n < 10 THEN <<n>> ELSE Digits(n \div 10) \o <<n % 10>>

\* n / BigInt(1_000_000)
Million(n) == n \div 1000000

\* formatLiquidity(liquidity): the text shown in the position list. The first test is
\* num > 10^12, written with quotients of 10^6.
formatLiquidity(n) ==
    IF Million(n) > 1000000 \/ (Million(n) = 1000000 /\ n % 1000000 > 0)
    THEN [digits |-> Digits(Million(n) \div 1000000), suffix |-> ".00T"]
    ELSE IF n > 1000000000 THEN [digits |-> Digits(n \div 1000000000), suffix |-> ".00B"]
    ELSE IF n > 1000000 THEN [digits |-> Digits(n \div 1000000), suffix |-> ".00M"]
    ELSE IF n > 1000 THEN [digits |-> Digits(n \div 1000), suffix |-> ".00K"]
    ELSE [digits |-> Digits(n), suffix |-> ""]

\* ClosePositionModal: hasLiquidity; every text it excludes starts with '0'.
hasLiquidity(text) == text.digits[1] # 0

\* WithdrawModal: (totalLiquidity * BigInt(percentage)) / BigInt(100)
liquidityToRemove(totalLiquidity, percentage) == (totalLiquidity * percentage) \div 100

\* Variant of handleClosePosition without the hasLiquidity guard.
handleClosePosition_NoGuard(wallet, m, listed, c, sdk) ==
    [closePosition([wallet |-> wallet, positionMint |-> m], c, sdk)
        EXCEPT !.via = "ui", !.listed = listed]

\* handleClosePosition for a position listed with liquidity `listed`: refused in the
\* modal, or sent to the server.
handleClosePosition(wallet, m, listed, c, sdk) ==
    IF hasLiquidity(formatLiquidity(listed))
    THEN [Response("closePosition", wallet, m, "-", 0, 0, 0, 0, 0, 0, FALSE,
                   "Position still has liquidity. Please withdraw all liquidity first.",
                   FALSE, <<>>)
            EXCEPT !.via = "ui", !.listed = listed, !.refused = TRUE]
    ELSE [closePosition([wallet |-> wallet, positionMint |-> m], c, sdk)
            EXCEPT !.via = "ui", !.listed = listed]

\* ------------------------------------------------------------ actions
Idle == resp = NoResp /\ wd = NoWd

\* No component is mounted.
NoFlow ==
    /\ flow = "none"
    /\ isOpen = FALSE
    /\ txStatus = "idle"
    /\ isSubmitting = FALSE
    /\ errorMessage = "null"
    /\ pc = "none"
    /\ trail = <<>>
    /\ startedFrom = "none"
    /\ txFate = "none"
    /\ log = <<>>

\* No position exists and no request is under way.
NoChain ==
    /\ chain = <<>>
    /\ resp = NoResp
    /\ resp2 = NoResp
    /\ wd = NoWd

\* The trading API has handled no request.
NoTrade ==
    /\ env = <<>>
    /\ trade = [route |-> "none"]

\* The text of an empty input.
EmptyText == [type |-> "empty", value |-> 0]

\* The state CreatePositionPanel is created with, for the default props.
NoPanel ==
    /\ currentPrice = 0
    /\ minPrice = EmptyText
    /\ maxPrice = EmptyText
    /\ tokens = <<"SOL", "USDC">>
    /\ tokenAPriceUsd = 0
    /\ tokenBPriceUsd = 0
    /\ liquidityData = <<>>
    /\ depositRatio = [computed |-> FALSE]
    /\ chart = [computed |-> FALSE]

\* The WebSocket server has no client and no subscription.
NoSocket ==
    /\ allClients = {}
    /\ closedClients = {}
    /\ wsWallet = [ws \in Sockets |-> "undefined"]
    /\ clientsByWallet = <<>>
    /\ accountSubscriptions = <<>>
    /\ listeners = {}
    /\ nextSubId = 1
    /\ pendingRemovals = <<>>

\* No handler call is followed fetch by fetch.
NoFetch ==
    /\ ledger = <<>>
    /\ handlerCall = [name |-> "none"]

\* Nothing but the compose handlers and the transaction flows is under way.
NoOther == NoTrade /\ NoSocket /\ NoPanel /\ NoFetch

Init == NoChain /\ NoFlow /\ NoOther

\* The bodies of the create-or-deposit requests: a range as tick indices, as prices
\* (what CreatePositionPanel sends for the connected wallet), or missing.
TickRequests ==
    [wallet : Wallets, whirlpool : Pools, tickLower : {<<t>> : t \in RawTicks},
     tickUpper : {<<t>> : t \in RawTicks}, priceLower : {<<>>}, priceUpper : {<<>>},
     amountA : Amounts]
PriceRequests ==
    [wallet : Funded, whirlpool : Pools, tickLower : {<<>>}, tickUpper : {<<>>},
     priceLower : LowerPriceStrings, priceUpper : UpperPriceStrings, amountA : Amounts]
NoRangeRequests ==
    [wallet : Wallets, whirlpool : Pools, tickLower : {<<>>}, tickUpper : {<<>>},
     priceLower : {<<>>}, priceUpper : {<<>>}, amountA : Amounts]
MalformedRequests ==
    {r \in [wallet : Funded \cup MalformedAddresses, whirlpool : Pools \cup MalformedAddresses,
            tickLower : {<<>>}, tickUpper : {<<>>}, priceLower : {<<>>},
            priceUpper : {<<>>}, amountA : Amounts] :
        PublicKeyThrows(r.wallet) \/ PublicKeyThrows(r.whirlpool)}
CreateRequests == TickRequests \cup PriceRequests \cup NoRangeRequests \cup MalformedRequests
WalletInputs == Wallets \cup MalformedAddresses
MintInputs == Mints \cup MalformedAddresses

\* POST /api/position/create-or-deposit
CreateOrDeposit(request, newMint) ==
    /\ Idle
    /\ newMint \notin DOMAIN chain
    /\ resp' = createOrDeposit(request, chain, newMint)
    /\ UNCHANGED <<chain, resp2, wd, flowVars, otherVars>>

\* POST /api/position/withdraw
Withdraw(w, m, liquidity) ==
    /\ Idle
    /\ resp' = withdraw([wallet |-> w, positionMint |-> m, liquidity |-> liquidity], chain)
    /\ UNCHANGED <<chain, resp2, wd, flowVars, otherVars>>

\* WithdrawModal.handleWithdraw up to the request: the positions of the wallet are
\* fetched and the liquidity to remove is computed from the one selected.
HandleWithdrawFetch(w, m, percentage) ==
    /\ Idle
    /\ m \in DOMAIN chain
    /\ chain[m].owner = w
    /\ wd' = [wallet |-> w, mint |-> m, pct |-> percentage,
              liquidity |-> liquidityToRemove(chain[m].liquidity, percentage)]
    /\ UNCHANGED <<chain, resp, resp2, flowVars, otherVars>>

\* WithdrawModal.handleWithdraw: api.withdraw with the liquidity computed before.
HandleWithdrawSend ==
    /\ wd # NoWd
    /\ resp = NoResp
    /\ resp' = [withdraw([wallet |-> wd.wallet, positionMint |-> wd.mint,
                          liquidity |-> wd.liquidity], chain)
                   EXCEPT !.via = "ui", !.pct = wd.pct]
    /\ wd' = NoWd
    /\ UNCHANGED <<chain, resp2, flowVars, otherVars>>

\* POST /api/position/collect-fees
CollectFees(w, m) ==
    /\ Idle
    /\ resp' = collectFees([wallet |-> w, positionMint |-> m], chain)
    /\ UNCHANGED <<chain, resp2, wd, flowVars, otherVars>>

\* POST /api/position/close
ClosePosition(w, m, sdk) ==
    /\ Idle
    /\ resp' = closePosition([wallet |-> w, positionMint |-> m], chain, sdk)
    /\ UNCHANGED <<chain, resp2, wd, flowVars, otherVars>>

\* ClosePositionModal on a position the list showed with liquidity `listed`.
HandleClosePosition(w, m, listed, sdk) ==
    /\ Idle
    /\ resp' = handleClosePosition(w, m, listed, chain, sdk)
    /\ UNCHANGED <<chain, resp2, wd, flowVars, otherVars>>

\* The wallet signs the composed transaction and it is executed.
Submit ==
    /\ resp # NoResp
    /\ resp.stage = "composed"
    /\ resp.success
    /\ LET r == ExecTx(chain, resp.wallet, resp.ixs) IN
        /\ chain' = r.chain
        /\ resp' = [resp EXCEPT !.stage = IF r.ok THEN "landed" ELSE "failed"]
    /\ UNCHANGED <<resp2, wd, flowVars, otherVars>>

\* A second create-or-deposit request of the same wallet for the same pool and range is
\* handled while the transaction of the first is not yet submitted; openPosition generates
\* a keypair of its own for it.
CreateOrDepositConcurrent(amountA, newMint) ==
    /\ resp.handler = "createOrDeposit"
    /\ resp.stage = "composed"
    /\ resp.success
    /\ resp2 = NoResp
    /\ newMint \notin DOMAIN chain \cup {resp.mint}
    /\ resp2' = createOrDeposit([wallet |-> resp.wallet, whirlpool |-> resp.pool,
                                 tickLower |-> <<resp.tickLower>>,
                                 tickUpper |-> <<resp.tickUpper>>,
                                 priceLower |-> <<>>, priceUpper |-> <<>>,
                                 amountA |-> amountA], chain, newMint)
    /\ UNCHANGED <<chain, resp, wd, flowVars, otherVars>>

\* The wallet signs the transaction of the second request and it is executed.
SubmitConcurrent ==
    /\ resp2 # NoResp
    /\ resp2.stage = "composed"
    /\ resp2.success
    /\ LET r == ExecTx(chain, resp2.wallet, resp2.ixs) IN
        /\ chain' = r.chain
        /\ resp2' = [resp2 EXCEPT !.stage = IF r.ok THEN "landed" ELSE "failed"]
    /\ UNCHANGED <<resp, wd, flowVars, otherVars>>

\* The response is dropped: the flow ended or the user went on.
Forget ==
    /\ resp # NoResp
    /\ resp' = NoResp
    /\ resp2' = NoResp
    /\ UNCHANGED <<chain, wd, flowVars, otherVars>>

\* A transaction of another client of the owner changes a position's liquidity.
ExternalLiquidityChange(m, d) ==
    /\ resp = NoResp
    /\ m \in DOMAIN chain
    /\ chain[m].liquidity + d \in 0..MaxLiq
    /\ chain' = [chain EXCEPT ![m].liquidity = @ + d]
    /\ UNCHANGED <<resp, resp2, wd, flowVars, otherVars>>

\* Swaps in the pool: fees accrue to a position that has liquidity.
FeeAccrue(m, token) ==
    /\ resp = NoResp
    /\ m \in DOMAIN chain
    /\ chain[m].liquidity > 0
    /\ chain[m].feeOwedA + chain[m].feeOwedB < FeeCap
    /\ \/ /\ token = "A"
          /\ chain' = [chain EXCEPT ![m].feeOwedA = @ + 1]
       \/ /\ token = "B"
          /\ chain' = [chain EXCEPT ![m].feeOwedB = @ + 1]
    /\ UNCHANGED <<resp, resp2, wd, flowVars, otherVars>>

Next ==
    \/ \E request \in CreateRequests, newMint \in Mints : CreateOrDeposit(request, newMint)
    \/ \E w \in WalletInputs, m \in MintInputs, liquidity \in 0..(MaxLiq + 1) :
            Withdraw(w, m, liquidity)
    \/ \E w \in Wallets, m \in Mints, percentage \in Percentages :
            HandleWithdrawFetch(w, m, percentage)
    \/ HandleWithdrawSend
    \/ \E w \in WalletInputs, m \in MintInputs : CollectFees(w, m)
    \/ \E w \in WalletInputs, m \in MintInputs, sdk \in SdkBuilds : ClosePosition(w, m, sdk)
    \/ \E w \in Funded, m \in Mints, listed \in 0..MaxLiq, sdk \in SdkBuilds :
            HandleClosePosition(w, m, listed, sdk)
    \/ Submit
    \/ \E amountA \in Amounts, newMint \in Mints : CreateOrDepositConcurrent(amountA, newMint)
    \/ SubmitConcurrent
    \/ Forget
    \/ \E m \in Mints, d \in {-1, 1} : ExternalLiquidityChange(m, d)
    \/ \E m \in Mints, token \in {"A", "B"} : FeeAccrue(m, token)

Spec == Init /\ [][Next]_vars


\* ------------------------------------------------------------ transaction flows
\* handleCreatePosition, handleWithdraw, handleCollectFees and handleClosePosition,
\* one step per await. A closed modal is unmounted by PositionList and a reopened one
\* is a new component; CreatePositionPanel stays mounted while closed.
Flows == {"create", "withdraw", "collect", "close"}

BuildOutcomes == {"transaction", "notSuccess", "noTransaction", "throws", "invalidFormat"}
ConfirmOutcomes == {"confirmed", "failedOnChain", "timeout"}

Last(seq) == seq[Len(seq)]

\* disabled={isSubmitting || ...} of the submit button; inputOk is: percentage # 0
\* (withdraw), hasUnclaimedFees (collect), ~hasLiquidity (close).
ButtonEnabled(f, submitting, connected, inputOk) ==
    /\ ~submitting
    /\ IF f = "create" THEN connected ELSE inputOk

\* The message of the handler's early return, "null" when it goes on. For create
\* inputOk is: amountA, minPrice and maxPrice are filled in.
EarlyReturn(f, connected, canSign, inputOk) ==
    IF ~(connected /\ canSign) THEN "wallet"
    ELSE IF f = "close" /\ ~inputOk THEN "liquidity"
    ELSE IF f = "create" /\ ~inputOk THEN "fields"
    ELSE "null"

\* The status set before the try block.
StatusAtStart == "building"
\* The first await of the handler.
FirstAwait(f) == IF f = "withdraw" THEN "fetch" ELSE "build"
\* Variant of StatusAfterBuild that goes past signing.
StatusAfterBuild_SkipsSigning == "confirming"
\* The status set once the response holds a transaction.
StatusAfterBuild == "signing"
\* The statuses set once sendRawTransaction returned, up to the next await or the end:
\* handleCollectFees does not wait for the confirmation.
StatusesAfterSend(f) == IF f = "collect" THEN <<"confirming", "success">> ELSE <<"confirming">>
\* The status set once confirmTransaction returned; its result is not looked at.
StatusAfterConfirm(outcome) == "success"

InitFlow ==
    /\ NoChain
    /\ NoOther
    /\ flow \in Flows
    /\ isOpen = TRUE
    /\ txStatus = "idle"
    /\ isSubmitting = FALSE
    /\ errorMessage = "null"
    /\ pc = "none"
    /\ trail = <<>>
    /\ startedFrom = "none"
    /\ txFate = "none"
    /\ log = <<>>

\* Variant of Catch that starts the build again instead of ending the handler call.
Catch_Retries ==
    /\ txStatus' = "building"
    /\ trail' = Append(trail, "building")
    /\ errorMessage' = "failed"
    /\ isSubmitting' = TRUE
    /\ pc' = "build"

\* catch and finally of the handler
Catch ==
    /\ txStatus' = "error"
    /\ trail' = Append(trail, "error")
    /\ errorMessage' = "failed"
    /\ isSubmitting' = FALSE
    /\ pc' = "none"

\* A click on the submit button, shown unless txStatus is success.
Click(connected, canSign, inputOk) ==
    /\ isOpen
    /\ txStatus # "success"
    /\ ButtonEnabled(flow, isSubmitting, connected, inputOk)
    /\ LET early == EarlyReturn(flow, connected, canSign, inputOk) IN
       IF early # "null"
       THEN /\ errorMessage' = early
            /\ UNCHANGED <<txStatus, isSubmitting, pc, trail, startedFrom, txFate, log>>
       ELSE /\ isSubmitting' = TRUE
            /\ txStatus' = StatusAtStart
            /\ errorMessage' = "null"
            /\ trail' = <<StatusAtStart>>
            /\ startedFrom' = txStatus
            /\ txFate' = "none"
            /\ log' = <<>>
            /\ pc' = FirstAwait(flow)
    /\ UNCHANGED <<composeVars, otherVars, flow, isOpen>>

\* handleWithdraw: api.getPositions returned, the position is looked up.
FetchPositions(outcome) ==
    /\ pc = "fetch"
    /\ log' = Append(log, [call |-> "fetch", outcome |-> outcome])
    /\ IF outcome = "found"
       THEN /\ pc' = "build"
            /\ UNCHANGED <<txStatus, trail, errorMessage, isSubmitting>>
       ELSE Catch
    /\ UNCHANGED <<composeVars, otherVars, flow, isOpen, startedFrom, txFate>>

\* Variant of Build that only looks at response.success.
Build_SignsWithoutTransaction(outcome) ==
    /\ pc = "build"
    /\ log' = Append(log, [call |-> "build", outcome |-> outcome])
    /\ IF outcome \in {"transaction", "noTransaction"}
       THEN /\ txStatus' = StatusAfterBuild
            /\ trail' = Append(trail, StatusAfterBuild)
            /\ pc' = "sign"
            /\ UNCHANGED <<errorMessage, isSubmitting>>
       ELSE Catch
    /\ UNCHANGED <<composeVars, otherVars, flow, isOpen, startedFrom, txFate>>

\* The api call returned and the transaction is deserialized.
Build(outcome) ==
    /\ pc = "build"
    /\ log' = Append(log, [call |-> "build", outcome |-> outcome])
    /\ IF outcome = "transaction"
       THEN /\ txStatus' = StatusAfterBuild
            /\ trail' = Append(trail, StatusAfterBuild)
            /\ pc' = "sign"
            /\ UNCHANGED <<errorMessage, isSubmitting>>
       ELSE Catch
    /\ UNCHANGED <<composeVars, otherVars, flow, isOpen, startedFrom, txFate>>

\* signTransaction returned.
Sign(outcome) ==
    /\ pc = "sign"
    /\ log' = Append(log, [call |-> "sign", outcome |-> outcome])
    /\ IF outcome = "signed"
       THEN /\ pc' = "send"
            /\ UNCHANGED <<txStatus, trail, errorMessage, isSubmitting>>
       ELSE Catch
    /\ UNCHANGED <<composeVars, otherVars, flow, isOpen, startedFrom, txFate>>

\* sendRawTransaction returned.
Send(outcome) ==
    /\ pc = "send"
    /\ log' = Append(log, [call |-> "send", outcome |-> outcome])
    /\ IF outcome = "sent"
       THEN LET set == StatusesAfterSend(flow) IN
            /\ txStatus' = Last(set)
            /\ trail' = trail \o set
            /\ txFate' = "sent"
            /\ IF Last(set) = "success"
               THEN isSubmitting' = FALSE /\ pc' = "none"
               ELSE isSubmitting' = isSubmitting /\ pc' = "confirm"
            /\ UNCHANGED errorMessage
       ELSE Catch /\ UNCHANGED txFate
    /\ UNCHANGED <<composeVars, otherVars, flow, isOpen, startedFrom>>

\* confirmTransaction returned or threw.
Confirm(outcome) ==
    /\ pc = "confirm"
    /\ log' = Append(log, [call |-> "confirm", outcome |-> outcome])
    /\ IF outcome = "timeout"
       THEN Catch /\ txFate' = "unknown"
       ELSE /\ txStatus' = StatusAfterConfirm(outcome)
            /\ trail' = Append(trail, StatusAfterConfirm(outcome))
            /\ txFate' = outcome
            /\ isSubmitting' = FALSE
            /\ pc' = "none"
            /\ UNCHANGED errorMessage
    /\ UNCHANGED <<composeVars, otherVars, flow, isOpen, startedFrom>>

\* CreatePositionPanel: onClose
ClosePanel ==
    /\ flow = "create"
    /\ isOpen
    /\ isOpen' = FALSE
    /\ UNCHANGED <<composeVars, otherVars, flow, txStatus, isSubmitting, errorMessage, pc, trail,
                   startedFrom, txFate, log>>

\* CreatePositionPanel: the effect on isOpen resets the states when opening.
OpenPanel ==
    /\ flow = "create"
    /\ ~isOpen
    /\ isOpen' = TRUE
    /\ txStatus' = "idle"
    /\ errorMessage' = "null"
    /\ UNCHANGED <<composeVars, otherVars, flow, isSubmitting, pc, trail, startedFrom, txFate, log>>

NextFlow ==
    \/ \E connected \in BOOLEAN, canSign \in BOOLEAN, inputOk \in BOOLEAN :
            Click(connected, canSign, inputOk)
    \/ \E outcome \in {"found", "notFound", "throws"} : FetchPositions(outcome)
    \/ \E outcome \in BuildOutcomes : Build(outcome)
    \/ \E outcome \in {"signed", "rejected"} : Sign(outcome)
    \/ \E outcome \in {"sent", "throws"} : Send(outcome)
    \/ \E outcome \in ConfirmOutcomes : Confirm(outcome)
    \/ ClosePanel
    \/ OpenPanel

SpecFlow == InitFlow /\ [][NextFlow]_vars


\* ------------------------------------------------------------ trading API: slippage
\* JavaScript values: a number, NaN or undefined.
Num(n) == [type |-> "number", value |-> n]
NaN == [type |-> "NaN", value |-> 0]
Undefined == [type |-> "undefined", value |-> 0]

\* !v: undefined, NaN and 0 are falsy.
Falsy(v) == v.type # "number" \/ v.value = 0
\* a || b
Or(a, b) == IF Falsy(a) THEN b ELSE a
\* v < 0: false when v is not a number.
LessThanZero(v) == v.type = "number" /\ v.value < 0
\* Math.min(a, b): NaN when an argument is not a number.
MathMin(a, b) ==
    IF a.type # "number" \/ b.type # "number" THEN NaN
    ELSE IF a.value <= b.value THEN a ELSE b

RECURSIVE LeadingDigits(_)
\* The longest prefix of digit characters.
LeadingDigits(str) ==
    IF str = <<>> \/ ~IsDigit(Head(str)) THEN <<>>
    ELSE <<Head(str)>> \o LeadingDigits(Tail(str))

\* parseInt(str): an optional sign and the digits that follow; NaN when there are none.
\* A missing value is the empty sequence.
parseInt(str) ==
    LET negative == str # <<>> /\ str[1] = "-"
        digits == LeadingDigits(IF negative THEN Tail(str) ELSE str)
    IN  IF digits = <<>> THEN NaN
        ELSE Num(IF negative THEN 0 - DigitsValue(digits) ELSE DigitsValue(digits))

\* The slippage clampSlippage returns for a request that gives none.
DefaultSlippageBps == 50
\* The default of the parameter maxBps, and of MAX_SLIPPAGE_BPS when the variable is unset.
DefaultMaxBps == 500

\* clampSlippage(slippageBps, maxBps = 500)
clampSlippage(slippageBps, maxBps) ==
    LET max == IF maxBps.type = "undefined" THEN Num(DefaultMaxBps) ELSE maxBps IN
    IF Falsy(slippageBps) \/ LessThanZero(slippageBps)
    THEN Num(DefaultSlippageBps)
    ELSE MathMin(slippageBps, max)

\* parseInt(process.env.MAX_SLIPPAGE_BPS || "500")
maxSlippage == IF env = <<>> THEN Num(DefaultMaxBps) ELSE parseInt(env)

\* The values of MAX_SLIPPAGE_BPS: unset, the documented 500, lower limits, not a number.
EnvValues == {<<>>, <<"5", "0", "0">>, <<"1", "0", "0">>, <<"3", "0">>, <<"0">>, <<"x">>}
\* slippageBps of the query string of GET /trade/quote, <<>> when missing.
QuerySlippage == {<<>>, <<"0">>, <<"-", "1">>, <<"3", "0">>, <<"1", "0", "0">>, <<"6", "0", "0">>, <<"x">>}
\* slippageBps of the JSON body of POST /trade/build.
BodySlippage == {Undefined, Num(0), Num(-1), Num(1), Num(30), Num(100), Num(600)}
\* The arguments of a direct call of clampSlippage.
SlippageArguments == BodySlippage \cup {NaN}
MaxArguments == {Undefined, Num(0), Num(30), Num(500)}
\* Whether the Jupiter call of a route succeeds; the Orca call is made when it fails.
JupiterOutcomes == {"ok", "fails"}

\* What a call leaves: the limit it used, the slippage it computed and the providers
\* the slippage was passed to.
Trade(route, maxBps, finalSlippage, jupiter) ==
    [route |-> route, maxBps |-> maxBps, finalSlippage |-> finalSlippage,
     passedTo |-> IF route = "clampSlippage" THEN {}
                  ELSE IF jupiter = "ok" THEN {"jupiter"} ELSE {"jupiter", "orca"}]

InitTrade ==
    /\ NoChain
    /\ NoFetch
    /\ NoFlow
    /\ NoSocket
    /\ NoPanel
    /\ env \in EnvValues
    /\ trade = [route |-> "none"]

\* GET /trade/quote with valid mints, amount and userPubkey
TradeQuote(slippageBps, jupiter) ==
    /\ trade' = Trade("quote", maxSlippage,
                      clampSlippage(Or(parseInt(slippageBps), Num(DefaultSlippageBps)),
                                    maxSlippage),
                      jupiter)
    /\ UNCHANGED <<composeVars, flowVars, fetchVars, socketVars, panelVars, env>>

\* POST /trade/build with the required parameters
TradeBuild(slippageBps, jupiter) ==
    /\ trade' = Trade("build", maxSlippage,
                      clampSlippage(Or(slippageBps, Num(DefaultSlippageBps)), maxSlippage),
                      jupiter)
    /\ UNCHANGED <<composeVars, flowVars, fetchVars, socketVars, panelVars, env>>

\* A call of the exported function.
ClampSlippage(slippageBps, maxBps) ==
    /\ trade' = Trade("clampSlippage",
                      IF maxBps.type = "undefined" THEN Num(DefaultMaxBps) ELSE maxBps,
                      clampSlippage(slippageBps, maxBps), "ok")
    /\ UNCHANGED <<composeVars, flowVars, fetchVars, socketVars, panelVars, env>>

NextTrade ==
    \/ \E slippageBps \in QuerySlippage, jupiter \in JupiterOutcomes :
            TradeQuote(slippageBps, jupiter)
    \/ \E slippageBps \in BodySlippage, jupiter \in JupiterOutcomes :
            TradeBuild(slippageBps, jupiter)
    \/ \E slippageBps \in SlippageArguments, maxBps \in MaxArguments :
            ClampSlippage(slippageBps, maxBps)

SpecTrade == InitTrade /\ [][NextTrade]_vars


\* ------------------------------------------------------------ WebSocket server
\* A Map without the key.
MapDelete(map, key) == [k \in DOMAIN map \ {key} |-> map[k]]
\* A Map with the key set to the value.
MapSet(map, key, value) == [k \in DOMAIN map \cup {key} |-> IF k = key THEN value ELSE map[k]]
\* A sequence without its i-th element.
RemoveAt(seq, i) == SubSeq(seq, 1, i - 1) \o SubSeq(seq, i + 1, Len(seq))

\* The wallets a SUBSCRIBE message can name.
MessageWallets == Wallets

\* subscribeToWallet(wallet) calls onAccountChange: the wallet has no entry in
\* accountSubscriptions and new PublicKey(wallet) does not throw.
Subscribes(wallet) == wallet \notin DOMAIN accountSubscriptions /\ ~PublicKeyThrows(wallet)

\* subscribeToWallet(wallet): onAccountChange returns the id at once, nothing is awaited.
subscribeToWallet(wallet) ==
    IF Subscribes(wallet)
    THEN /\ nextSubId <= MaxSubId
         /\ accountSubscriptions' = MapSet(accountSubscriptions, wallet, nextSubId)
         /\ listeners' = listeners \cup {[id |-> nextSubId, wallet |-> wallet]}
         /\ nextSubId' = nextSubId + 1
    ELSE UNCHANGED <<accountSubscriptions, listeners, nextSubId>>

\* unsubscribeFromWallet(wallet) up to its await: the subscription id is read and
\* removeAccountChangeListener is called.
unsubscribeFromWallet(wallet) ==
    IF wallet \in DOMAIN accountSubscriptions
    THEN /\ Len(pendingRemovals) < MaxPending
         /\ pendingRemovals' = Append(pendingRemovals,
                [wallet |-> wallet, subId |-> accountSubscriptions[wallet]])
    ELSE UNCHANGED pendingRemovals

\* The socket is taken out of the set of ws.wallet; the wallet is unsubscribed when the
\* set becomes empty.
RemoveFromWallet(ws) ==
    LET wallet == wsWallet[ws] IN
    IF wallet # "undefined" /\ wallet \in DOMAIN clientsByWallet
    THEN LET walletClients == clientsByWallet[wallet] \ {ws} IN
         IF walletClients = {}
         THEN /\ clientsByWallet' = MapDelete(clientsByWallet, wallet)
              /\ unsubscribeFromWallet(wallet)
         ELSE /\ clientsByWallet' = MapSet(clientsByWallet, wallet, walletClients)
              /\ UNCHANGED pendingRemovals
    ELSE UNCHANGED <<clientsByWallet, pendingRemovals>>

InitSocket ==
    /\ NoChain
    /\ NoFetch
    /\ NoFlow
    /\ NoTrade
    /\ NoPanel
    /\ NoSocket

\* wss.on("connection")
Connect(ws) ==
    /\ ws \notin allClients \cup closedClients
    /\ allClients' = allClients \cup {ws}
    /\ UNCHANGED <<closedClients, wsWallet, clientsByWallet, accountSubscriptions, listeners,
                   nextSubId, pendingRemovals>>
    /\ UNCHANGED <<composeVars, flowVars, fetchVars, tradeVars, panelVars>>

\* handleMessage, case "SUBSCRIBE" with msg.wallet set
HandleSubscribe(ws, wallet) ==
    /\ ws \in allClients
    /\ wsWallet' = [wsWallet EXCEPT ![ws] = wallet]
    /\ clientsByWallet' =
            MapSet(clientsByWallet, wallet,
                   (IF wallet \in DOMAIN clientsByWallet THEN clientsByWallet[wallet] ELSE {})
                        \cup {ws})
    /\ subscribeToWallet(wallet)
    /\ UNCHANGED <<allClients, closedClients, pendingRemovals>>
    /\ UNCHANGED <<composeVars, flowVars, fetchVars, tradeVars, panelVars>>

\* handleMessage, case "UNSUBSCRIBE"
HandleUnsubscribe(ws) ==
    /\ ws \in allClients
    /\ RemoveFromWallet(ws)
    /\ wsWallet' = [wsWallet EXCEPT ![ws] = "undefined"]
    /\ UNCHANGED <<allClients, closedClients, accountSubscriptions, listeners, nextSubId>>
    /\ UNCHANGED <<composeVars, flowVars, fetchVars, tradeVars, panelVars>>

\* ws.on("close"), also after the heartbeat terminated the socket
Close(ws) ==
    /\ ws \in allClients
    /\ allClients' = allClients \ {ws}
    /\ closedClients' = closedClients \cup {ws}
    /\ RemoveFromWallet(ws)
    /\ UNCHANGED <<wsWallet, accountSubscriptions, listeners, nextSubId>>
    /\ UNCHANGED <<composeVars, flowVars, fetchVars, tradeVars, panelVars>>

\* unsubscribeFromWallet after its await: removeAccountChangeListener returned and the
\* entry of the wallet is deleted, or it threw and the catch block logs.
RemoveListenerReturns(i, outcome) ==
    /\ i \in 1..Len(pendingRemovals)
    /\ pendingRemovals' = RemoveAt(pendingRemovals, i)
    /\ IF outcome = "removed"
       THEN /\ listeners' = {l \in listeners : l.id # pendingRemovals[i].subId}
            /\ accountSubscriptions' = MapDelete(accountSubscriptions, pendingRemovals[i].wallet)
       ELSE UNCHANGED <<accountSubscriptions, listeners>>
    /\ UNCHANGED <<allClients, closedClients, wsWallet, clientsByWallet, nextSubId>>
    /\ UNCHANGED <<composeVars, flowVars, fetchVars, tradeVars, panelVars>>

NextSocket ==
    \/ \E ws \in Sockets : Connect(ws)
    \/ \E ws \in Sockets, wallet \in MessageWallets : HandleSubscribe(ws, wallet)
    \/ \E ws \in Sockets : HandleUnsubscribe(ws)
    \/ \E ws \in Sockets : Close(ws)
    \/ \E i \in 1..MaxPending, outcome \in {"removed", "throws"} : RemoveListenerReturns(i, outcome)

SpecSocket == InitSocket /\ [][NextSocket]_vars


\* ------------------------------------------------------------ CreatePositionPanel: deposit ratio
\* A share of the deposit in percent; shares are kept in tenths of a percent, the
\* precision calculateDepositRatio rounds to.
TenthsPerPercent == 10
Percent(n) == Num(TenthsPerPercent * n)

\* Math.round(n / d) for d > 0: the nearest integer, halves upwards.
MathRound(n, d) == (2 * n + d) \div (2 * d)

\* parseFloat of the text of a price bound: the number it writes, NaN for the text "NaN".
parseFloat(text) == IF text.type = "number" THEN text ELSE NaN

\* calculateDepositRatio()
calculateDepositRatio(price, minText, maxText) ==
    IF minText = EmptyText \/ maxText = EmptyText \/ price <= 0
    THEN [computed |-> TRUE, ratioA |-> Percent(50), ratioB |-> Percent(50)]
    ELSE LET min == parseFloat(minText)
             max == parseFloat(maxText)
         IN  IF min.type = "number" /\ price <= min.value
             THEN [computed |-> TRUE, ratioA |-> Percent(0), ratioB |-> Percent(100)]
             ELSE IF max.type = "number" /\ price >= max.value
             THEN [computed |-> TRUE, ratioA |-> Percent(100), ratioB |-> Percent(0)]
             ELSE IF min.type # "number" \/ max.type # "number"
             THEN [computed |-> TRUE, ratioA |-> NaN, ratioB |-> NaN]
             ELSE LET ratioB == MathRound((price - min.value) * 100 * TenthsPerPercent,
                                          max.value - min.value)
                  IN  [computed |-> TRUE, ratioA |-> Num(100 * TenthsPerPercent - ratioB),
                       ratioB |-> Num(ratioB)]

\* The upper bound the Full Range button sets.
FullRangeMax == 999999
\* The USD prices the price service returns for the displayed token; 0 is no price.
DisplayPrices == {0, 100}
\* The texts of a price bound: empty, "NaN" (a step button pressed on the empty input),
\* numbers around the current price, and the bounds of the Full Range button.
BoundTexts == {EmptyText, NaN, Num(0), Num(90), Num(99), Num(100), Num(101), Num(110), Num(FullRangeMax)}

InitRatio ==
    /\ NoChain
    /\ NoFetch
    /\ NoFlow
    /\ NoTrade
    /\ NoSocket
    /\ currentPrice \in DisplayPrices
    /\ minPrice \in BoundTexts
    /\ maxPrice \in BoundTexts
    /\ tokens = <<"SOL", "USDC">>
    /\ tokenAPriceUsd = currentPrice
    /\ tokenBPriceUsd = 1
    /\ liquidityData = <<>>
    /\ depositRatio = [computed |-> FALSE]
    /\ chart = [computed |-> FALSE]

\* A render of the panel calls calculateDepositRatio.
CalculateDepositRatio ==
    /\ depositRatio' = calculateDepositRatio(currentPrice, minPrice, maxPrice)
    /\ UNCHANGED <<currentPrice, minPrice, maxPrice, tokens, tokenAPriceUsd, tokenBPriceUsd,
                   liquidityData, chart>>
    /\ UNCHANGED <<composeVars, flowVars, fetchVars, tradeVars, socketVars>>

NextRatio == CalculateDepositRatio

SpecRatio == InitRatio /\ [][NextRatio]_vars


\* ------------------------------------------------------------ CreatePositionPanel: liquidity chart
\* new Array(64)
BucketCount == 64
\* liquidityData.length < 20
MinSamples == 20
Buckets == 0..(BucketCount - 1)

PeggedTokens == {"JupSOL", "mSOL", "stSOL", "bSOL", "jitoSOL"}
isPeggedPair(tokenA, tokenB) ==
    \/ tokenA \in PeggedTokens /\ tokenB = "SOL"
    \/ tokenB \in PeggedTokens /\ tokenA = "SOL"

Stablecoins == {"USDC", "USDT"}
\* fetchPrice: whether the chart shows the price of tokenA.
displayTokenA(tokenA, tokenB) ==
    IF tokenA \in Stablecoins THEN FALSE
    ELSE IF tokenB \in Stablecoins THEN TRUE
    ELSE IF tokenA = "SOL" /\ tokenB # "SOL" THEN FALSE
    ELSE TRUE

\* getTokenPrice(token): the USD price of the price service.
getTokenPrice(token) ==
    IF token \in Stablecoins THEN 1 ELSE IF token = "SOL" THEN 100 ELSE 110

\* Math.exp(-(dist * dist)) * 100 for dist = (i - 32) / 10, i = 0..63, to the nearest
\* integer.
GaussianHeight ==
    <<0, 0, 0, 0, 0, 0, 0, 0, 0, 1, 1, 1, 2, 3, 4, 6, 8, 11, 14, 18, 24, 30, 37, 44, 53, 61,
      70, 78, 85, 91, 96, 99, 100, 99, 96, 91, 85, 78, 70, 61, 53, 44, 37, 30, 24, 18, 14,
      11, 8, 6, 4, 3, 2, 1, 1, 1, 0, 0, 0, 0, 0, 0, 0, 0>>

\* 0.7 + Math.random() * 0.6 in percent: the ends and the middle of [0.7, 1.3).
Variations == {70, 100, 129}
\* The draws of Math.random() of one run of the loop: the same variation for every
\* bucket, or two variations in turn.
RandomDraws ==
    {[i \in Buckets |-> IF i % 2 = 0 THEN v[1] ELSE v[2]] : v \in Variations \X Variations}

\* The largest value of the array, as the loops keep it: maxBucket starts at 0.
RECURSIVE MaxFrom(_, _, _)
MaxFrom(buckets, i, maxBucket) ==
    IF i = BucketCount THEN maxBucket
    ELSE MaxFrom(buckets, i + 1, IF buckets[i] > maxBucket THEN buckets[i] ELSE maxBucket)

\* Variant of SyntheticBars that does not tag its result.
SyntheticBars_Untagged(random) ==
    LET buckets == [i \in Buckets |-> GaussianHeight[i + 1] * random[i]] IN
    [computed |-> TRUE, null |-> FALSE, buckets |-> buckets,
     maxBucket |-> MaxFrom(buckets, 0, 0), isStatic |-> FALSE, source |-> "synthesized"]

\* The static Gaussian distribution; values are in hundredths.
SyntheticBars(random) ==
    LET buckets == [i \in Buckets |-> GaussianHeight[i + 1] * random[i]] IN
    [computed |-> TRUE, null |-> FALSE, buckets |-> buckets,
     maxBucket |-> MaxFrom(buckets, 0, 0), isStatic |-> TRUE, source |-> "synthesized"]

\* tickPriceUsd as a fraction: tick.price * tokenBPriceUsd when tokenA is displayed,
\* tokenAPriceUsd / tick.price otherwise, 0 when tick.price is not positive.
TickPriceUsd(tick, isDisplayTokenA, priceA, priceB) ==
    IF isDisplayTokenA THEN [num |-> tick.price.num * priceB, den |-> tick.price.den]
    ELSE IF tick.price.num > 0 THEN [num |-> priceA * tick.price.den, den |-> tick.price.num]
    ELSE [num |-> 0, den |-> 1]

\* Variant of BucketOf that puts a sample outside the window into the nearest bucket.
BucketOf_Clamped(usd, price) ==
    IF usd.num <= 0 THEN -1
    ELSE IF 10 * usd.num < 8 * price * usd.den THEN 0
    ELSE IF 10 * usd.num >= 12 * price * usd.den THEN BucketCount - 1
    ELSE ((10 * usd.num - 8 * price * usd.den) * BucketCount) \div (4 * price * usd.den)

\* The index of the bucket a sample is added to, -1 when it is dropped. The window is
\* [price * 0.8, price * 1.2] and a bucket is price * 0.4 / 64 wide.
BucketOf(usd, price) ==
    IF usd.num <= 0 THEN -1
    ELSE IF 10 * usd.num < 8 * price * usd.den \/ 10 * usd.num > 12 * price * usd.den THEN -1
    ELSE LET bucketIdx ==
                ((10 * usd.num - 8 * price * usd.den) * BucketCount) \div (4 * price * usd.den)
         IN  IF bucketIdx >= 0 /\ bucketIdx < BucketCount THEN bucketIdx ELSE -1

\* liquidityData.forEach from the i-th sample on
RECURSIVE Accumulate(_, _, _, _, _, _, _)
Accumulate(data, i, buckets, maxBucket, price, isDisplayTokenA, usdPrices) ==
    IF i > Len(data)
    THEN [computed |-> TRUE, null |-> FALSE, buckets |-> buckets, maxBucket |-> maxBucket,
          isStatic |-> FALSE, source |-> "accumulated"]
    ELSE LET bucketIdx == BucketOf(TickPriceUsd(data[i], isDisplayTokenA, usdPrices[1],
                                                usdPrices[2]), price)
         IN  IF bucketIdx = -1
             THEN Accumulate(data, i + 1, buckets, maxBucket, price, isDisplayTokenA, usdPrices)
             ELSE LET value == buckets[bucketIdx] + data[i].liquidity IN
                  Accumulate(data, i + 1, [buckets EXCEPT ![bucketIdx] = value],
                             IF value > maxBucket THEN value ELSE maxBucket,
                             price, isDisplayTokenA, usdPrices)

\* The chartBars memo
chartBars(price, pair, data, usdPrices, random) ==
    IF price = 0 THEN [computed |-> TRUE, null |-> TRUE]
    ELSE IF isPeggedPair(pair[1], pair[2]) \/ Len(data) < MinSamples THEN SyntheticBars(random)
    ELSE IF Len(data) = 0 THEN [computed |-> TRUE, null |-> TRUE]
    ELSE Accumulate(data, 1, [i \in Buckets |-> 0], 0, price,
                    displayTokenA(pair[1], pair[2]), usdPrices)

\* The pairs of the pool list.
TokenPairs == {<<"SOL", "USDC">>, <<"USDC", "SOL">>, <<"JupSOL", "SOL">>, <<"SOL", "mSOL">>}

\* n copies of a sample.
Repeat(sample, n) == [i \in 1..n |-> sample]
Tick(num, den, liquidity) == [price |-> [num |-> num, den |-> den], liquidity |-> liquidity]
\* Initialized ticks near the price of a SOL/USDC or USDC/SOL pool, liquidityGross 1.
NearTicks == {Tick(80, 1, 1), Tick(100, 1, 1), Tick(1, 100, 1)}
\* Initialized ticks at, beyond and within the ends of the window, and one whose price
\* rounds to 0, liquidityGross 3.
FarTicks == {Tick(0, 1, 3), Tick(79, 1, 3), Tick(100, 1, 3), Tick(120, 1, 3), Tick(121, 1, 3), Tick(1, 121, 3)}
\* The distributions of the server: runs of two ticks, as many as the sparse-data test
\* asks for, one less, one, or none.
Distributions ==
    {Repeat(near, i) \o Repeat(far, j) :
        near \in NearTicks, far \in FarTicks,
        i \in {0, 1, MinSamples - 1, MinSamples}, j \in {0, 1, MinSamples}}

InitChart ==
    /\ NoChain
    /\ NoFetch
    /\ NoFlow
    /\ NoTrade
    /\ NoSocket
    /\ tokens \in TokenPairs
    /\ \E loaded \in BOOLEAN :
        /\ tokenAPriceUsd = (IF loaded THEN getTokenPrice(tokens[1]) ELSE 0)
        /\ tokenBPriceUsd = (IF loaded THEN getTokenPrice(tokens[2]) ELSE 0)
        /\ currentPrice = (IF ~loaded THEN 0
                           ELSE IF displayTokenA(tokens[1], tokens[2])
                           THEN getTokenPrice(tokens[1]) ELSE getTokenPrice(tokens[2]))
    /\ minPrice = EmptyText
    /\ maxPrice = EmptyText
    /\ liquidityData \in Distributions
    /\ depositRatio = [computed |-> FALSE]
    /\ chart = [computed |-> FALSE]

\* A render of the panel computes chartBars.
ChartBars(random) ==
    /\ chart' = chartBars(currentPrice, tokens, liquidityData,
                          <<tokenAPriceUsd, tokenBPriceUsd>>, random)
    /\ UNCHANGED <<currentPrice, minPrice, maxPrice, tokens, tokenAPriceUsd, tokenBPriceUsd,
                   liquidityData, depositRatio>>
    /\ UNCHANGED <<composeVars, flowVars, fetchVars, tradeVars, socketVars>>

NextChart == \E random \in RandomDraws : ChartBars(random)

SpecChart == InitChart /\ [][NextChart]_vars


\* ============================================================ claims
\* The last handler call was h and its transaction, if any, is not yet submitted:
\* the program state is the one the handler read.
Composed(h) == resp.handler = h /\ resp.stage = "composed"

\* The positions the requesting wallet holds in the requested pool and aligned range.
MatchingPositions ==
    {m \in DOMAIN chain :
        /\ chain[m].owner = resp.wallet
        /\ chain[m].whirlpool = resp.pool
        /\ chain[m].tickLowerIndex = resp.tickLower
        /\ chain[m].tickUpperIndex = resp.tickUpper}

\* C1: createOrDeposit composes [openPosition(tickLower, tickUpper), increaseLiquidity]
\* with isNewPosition = true when the wallet holds no position in the pool with the
\* aligned range, and [increaseLiquidity] on the existing position with
\* isNewPosition = false when it holds one.
C1_OpenOrDeposit ==
    (Composed("createOrDeposit") /\ resp.success) =>
        IF MatchingPositions = {}
        THEN /\ resp.isNewPosition
             /\ Ops(resp.ixs) = <<"openPosition", "increaseLiquidity">>
             /\ resp.ixs[1] = OpenPositionIx(resp.mint, resp.pool, resp.tickLower,
                                             resp.tickUpper)
             /\ resp.ixs[2].mint = resp.mint
        ELSE /\ ~resp.isNewPosition
             /\ Ops(resp.ixs) = <<"increaseLiquidity">>
             /\ resp.mint \in MatchingPositions
             /\ resp.ixs[1].mint = resp.mint

\* C2: closePosition on a position with liquidity > 0 composes exactly
\* [updateFeesAndRewards, decreaseLiquidity(full liquidity), updateFeesAndRewards,
\* collectFees, closePosition].
C2_CloseWithLiquidity ==
    (Composed("closePosition") /\ resp.success /\ resp.posLiq > 0) =>
        /\ Ops(resp.ixs) = <<"updateFeesAndRewards", "decreaseLiquidity",
                             "updateFeesAndRewards", "collectFees", "closePosition">>
        /\ resp.ixs[2].liq = resp.posLiq

C4_Original ==
    (Composed("closePosition") /\ resp.success /\ resp.posLiq = 0) =>
        /\ ("collectFees" \in {resp.ixs[i].op : i \in 1..Len(resp.ixs)}
                => (resp.feeA # 0 \/ resp.feeB # 0))
        /\ ((resp.feeA = 0 /\ resp.feeB = 0) => Ops(resp.ixs) = <<"closePosition">>)

\* C4 amended: closePosition on a position with liquidity == 0 composes exactly
\* [collectFees, closePosition], whether or not fees are owed.
C4_CloseEmpty ==
    (Composed("closePosition") /\ resp.success /\ resp.posLiq = 0) =>
        resp.ixs = <<CollectFeesIx(resp.mint), ClosePositionIx(resp.mint)>>

\* C4 witness: a close of a position without liquidity and without fees owed.
C4_Witness ==
    /\ Composed("closePosition")
    /\ resp.success
    /\ resp.posLiq = 0
    /\ resp.feeA = 0
    /\ resp.feeB = 0

C6_CollectFees ==
    (Composed("collectFees") /\ resp.success) =>
        resp.ixs = <<UpdateFeesAndRewardsIx(resp.mint), CollectFeesIx(resp.mint)>>

\* C6 witness: collectFees composed for a position without liquidity and fees owed.
C6_Witness ==
    /\ Composed("collectFees")
    /\ resp.success
    /\ resp.posLiq = 0
    /\ resp.feeA = 0
    /\ resp.feeB = 0

\* The transaction closePosition composes now for the position would execute.
Closable(w, m) ==
    \A sdk \in SdkBuilds :
        LET r == closePosition([wallet |-> w, positionMint |-> m], chain, sdk) IN
        r.success /\ ExecTx(chain, w, r.ixs).ok

\* C7: withdraw composes exactly one decreaseLiquidity and never a closePosition; a
\* withdrawal of the whole liquidity is accepted, and once it is executed the position
\* has liquidity 0 and still exists (it can then be closed).
C7_Withdraw ==
    resp.handler = "withdraw" =>
        /\ resp.success => resp.ixs = <<DecreaseLiquidityIx(resp.mint, resp.reqLiq)>>
        /\ (resp.posLiq > 0 /\ resp.reqLiq = resp.posLiq) => resp.success
        /\ (resp.stage = "landed" /\ resp.reqLiq = resp.posLiq) =>
                /\ resp.mint \in DOMAIN chain
                /\ chain[resp.mint].liquidity = 0
                /\ Closable(resp.wallet, resp.mint)

\* C7 witness: a withdrawal of the whole liquidity was executed.
C7_Witness ==
    /\ resp.handler = "withdraw"
    /\ resp.stage = "landed"
    /\ resp.reqLiq = resp.posLiq
    /\ resp.mint \in DOMAIN chain

\* C8: for a 100% withdrawal requested in the modal, the composed decreaseLiquidity
\* removes the position's whole liquidity as it is when the transaction is composed.
C8_FullWithdrawStaysFull ==
    (Composed("withdraw") /\ resp.via = "ui" /\ resp.pct = 100 /\ resp.success) =>
        resp.ixs[1].liq = chain[resp.mint].liquidity

\* C9: withdraw with more liquidity than the position has returns an error and
\* composes no transaction.
C9_InsufficientLiquidity ==
    (/\ Composed("withdraw")
     /\ resp.mint \in DOMAIN chain
     /\ resp.reqLiq > chain[resp.mint].liquidity)
        => /\ ~resp.success
           /\ resp.error = "Quote liquidity is more than the position liquidity."
           /\ resp.ixs = <<>>

\* C9 witness: a withdraw request for more liquidity than the position has.
C9_Witness ==
    /\ Composed("withdraw")
    /\ resp.mint \in DOMAIN chain
    /\ resp.reqLiq > chain[resp.mint].liquidity

\* The status changes the lifecycle idle -> building -> signing -> confirming ->
\* {success, error} consists of.
LifecycleSteps ==
    {<<"idle", "building">>, <<"building", "signing">>, <<"signing", "confirming">>,
     <<"confirming", "success">>, <<"building", "error">>, <<"signing", "error">>,
     <<"confirming", "error">>}

\* The statuses a step assigns one after the other, after the status it found.
Assigned ==
    IF trail' = trail THEN <<txStatus, txStatus'>>
    ELSE IF Len(trail') > Len(trail)
    THEN <<txStatus>> \o SubSeq(trail', Len(trail) + 1, Len(trail'))
    ELSE <<txStatus>> \o trail'

\* C10 as stated: in every flow txStatus changes only along idle -> building ->
\* signing -> confirming -> success, or to error from building, signing or confirming.
C10_Original ==
    [][\A i \in 1..(Len(Assigned) - 1) :
            Assigned[i] # Assigned[i + 1] =>
                <<Assigned[i], Assigned[i + 1]>> \in LifecycleSteps]_vars

\* C10 amended: the statuses one attempt assigns start with building and follow
\* building -> signing -> confirming -> success, or go to error from building, signing
\* or confirming, so signing and confirming are never assigned before building; an
\* attempt starts from idle or, as a retry, from error; outside an attempt's
\* assignments txStatus changes only by the create panel's reset to idle on reopening,
\* which can happen in any status.
C10_AttemptOrder ==
    /\ trail = <<>> => txStatus = "idle"
    /\ trail # <<>> =>
        /\ startedFrom \in {"idle", "error"}
        /\ trail[1] = "building"
        /\ \A i \in 1..(Len(trail) - 1) : <<trail[i], trail[i + 1]>> \in LifecycleSteps
        /\ txStatus \in {Last(trail), "idle"}
        /\ txStatus # Last(trail) => flow = "create"

\* C10 witness: a retry after an error went through every status up to success.
C10_Witness ==
    /\ startedFrom = "error"
    /\ trail = <<"building", "signing", "confirming", "success">>
    /\ txStatus = "success"

\* The calls the handler call awaited that are named `call`.
Calls(call) == {i \in 1..Len(log) : log[i].call = call}

\* The statuses the handler call assigned.
Statuses == {trail[i] : i \in 1..Len(trail)}

\* C11: when the build step of a flow fails (success = false, no serialized
\* transaction, or the request throws), the flow ends in error without entering
\* signing: the wallet is not asked to sign and nothing is sent.
C11_BuildFailureEndsFlow ==
    \A i \in Calls("build") :
        log[i].outcome # "transaction" =>
            /\ i = Len(log)
            /\ Calls("sign") = {}
            /\ Calls("send") = {}
            /\ txFate = "none"
            /\ "signing" \notin Statuses
            /\ Last(trail) = "error"
            /\ txStatus \in {"error", "idle"}
            /\ pc = "none"
            /\ ~isSubmitting

\* C11 witness: the backend answered without a serialized transaction.
C11_Witness ==
    /\ log # <<>>
    /\ Last(log) = [call |-> "build", outcome |-> "noTransaction"]
    /\ txStatus = "error"

\* C12: after a confirmation timeout the flow does not show the error outcome for the
\* transaction whose fate is unknown, and the user cannot submit again.
C12_TimeoutIsNotFailure ==
    txFate = "unknown" =>
        /\ txStatus # "error"
        /\ ~ButtonEnabled(flow, isSubmitting, TRUE, TRUE)

\* A call of the handler call that failed.
FailedCall(entry) ==
    \/ entry.call = "fetch" /\ entry.outcome # "found"
    \/ entry.call = "build" /\ entry.outcome # "transaction"
    \/ entry.call = "sign" /\ entry.outcome # "signed"
    \/ entry.call = "send" /\ entry.outcome # "sent"
    \/ entry.call = "confirm" /\ entry.outcome = "timeout"

\* C13: within one handler call a transaction is built, signed and sent at most once;
\* after a failed call (a submission failure and a confirmation timeout included) the
\* handler call has ended and nothing more was built, signed or sent.
C13_NoAutomaticRetry ==
    /\ \A call \in {"build", "sign", "send", "confirm"} : Cardinality(Calls(call)) <= 1
    /\ \A i \in 1..Len(log) :
            FailedCall(log[i]) => (i = Len(log) /\ pc = "none" /\ ~isSubmitting)

\* C13 witness: the confirmation timed out after the transaction was sent.
C13_Witness ==
    /\ Calls("send") # {}
    /\ Last(log) = [call |-> "confirm", outcome |-> "timeout"]
    /\ pc = "none"

\* C14: of two concurrent createOrDeposit requests with the same wallet, pool and
\* aligned range that both decided isNewPosition = true, only one open transaction
\* lands: after both were submitted the wallet holds at most one position for that
\* pool and range.
C14_OneOpenLands ==
    (/\ resp2 # NoResp
     /\ resp.isNewPosition
     /\ resp2.isNewPosition
     /\ resp.stage \in {"landed", "failed"}
     /\ resp2.stage \in {"landed", "failed"})
        => /\ ~(resp.stage = "landed" /\ resp2.stage = "landed")
           /\ Cardinality(MatchingPositions) <= 1

\* The response at hand is what createOrDeposit returns for the request.
AnswerTo(request) ==
    /\ request.wallet = resp.wallet
    /\ request.whirlpool = resp.pool
    /\ \E m \in Mints : resp = createOrDeposit(request, chain, m)

\* The key of position resolution: wallet, pool and the aligned ticks of the request.
Key(request) ==
    LET ticks == RequestedTicks(request) IN
    [wallet |-> request.wallet, pool |-> request.whirlpool,
     tickLower |-> getInitializableTickIndex(ticks.lower, TickSpacing),
     tickUpper |-> getInitializableTickIndex(ticks.upper, TickSpacing)]

\* The requests whose range resolves to aligned ticks with tickLower < tickUpper.
ValidRequests ==
    {r \in CreateRequests : RequestedTicks(r).ok /\ Key(r).tickLower < Key(r).tickUpper}

\* The positions in state c that have the key of the request.
KeyPositions(request, c) ==
    {m \in DOMAIN c :
        /\ c[m].owner = request.wallet
        /\ c[m].whirlpool = request.whirlpool
        /\ c[m].tickLowerIndex = Key(request).tickLower
        /\ c[m].tickUpperIndex = Key(request).tickUpper}

\* The match/no-match decision of createOrDeposit for the request in state c.
Decision(request, c) == createOrDeposit(request, c, CHOOSE m \in Mints : TRUE).isNewPosition

\* The state c without the positions that do not have the key of the request.
KeyState(request, c) == [m \in KeyPositions(request, c) |-> c[m]]

\* The requests that have the wallet, the pool and the aligned ticks of the response.
SameKeyRequests ==
    {r \in ValidRequests :
        /\ r.wallet = resp.wallet
        /\ r.whirlpool = resp.pool
        /\ Key(r).tickLower = resp.tickLower
        /\ Key(r).tickUpper = resp.tickUpper}

C16_RangeNeverShrinks ==
    Composed("createOrDeposit") =>
        \A r \in CreateRequests :
            (AnswerTo(r) /\ RequestedTicks(r).ok) =>
                /\ resp.tickLower % TickSpacing = 0
                /\ resp.tickUpper % TickSpacing = 0
                /\ resp.tickLower <= RequestedTicks(r).lower
                /\ resp.tickUpper >= RequestedTicks(r).upper

\* A price bound of the request is a number <= 0, or the aligned ticks do not satisfy
\* tickLower < tickUpper.
InvalidRange(request) ==
    \/ /\ request.priceLower # <<>>
       /\ request.priceUpper # <<>>
       /\ \E str \in {request.priceLower, request.priceUpper} :
            Decimal(str).ok /\ Decimal(str).num <= 0
    \/ /\ RequestedTicks(request).ok
       /\ Key(request).tickLower >= Key(request).tickUpper

C18_InvalidAmount ==
    (Composed("withdraw") /\ resp.reqLiq <= 0) =>
        /\ ~resp.success
        /\ resp.ixs = <<>>

\* C19: withdraw, collectFees and closePosition called for a position that does not
\* exist on-chain, or that the requesting wallet does not own, return an error and
\* compose no transaction.
C19_PositionNotFound ==
    \A h \in {"withdraw", "collectFees", "closePosition"} :
        (Composed(h) /\ (resp.mint \notin DOMAIN chain \/ chain[resp.mint].owner # resp.wallet)) =>
            /\ ~resp.success
            /\ resp.ixs = <<>>

\* C20: every compose handler returns, for every input including a malformed wallet,
\* pool or position-mint address and a missing position, either a success payload or an
\* error result value; no exception leaves the handler.
C20_NoException ==
    resp.handler \in {"createOrDeposit", "withdraw", "collectFees", "closePosition"} =>
        resp.stage # "thrown"

\* C27: txStatus becomes success only after the wait for the confirmation of the sent
\* transaction has returned, and only if the confirmation reports no on-chain error.
C27_SuccessOnlyConfirmed ==
    txStatus = "success" =>
        /\ txFate = "confirmed"
        /\ Calls("confirm") # {}
        /\ \A i \in Calls("confirm") : log[i].outcome = "confirmed"

\* The statuses of a handler call that has not ended.
Busy == {"building", "signing", "confirming"}

\* C28: isSubmitting is true exactly while txStatus is building, signing or confirming,
\* and false once the flow has ended in success or error; a handler call is in flight
\* only while isSubmitting, so the disabled button allows at most one at a time.
C28_SubmittingWhileBusy ==
    /\ isSubmitting <=> txStatus \in Busy
    /\ pc # "none" => isSubmitting

\* C30: for every requested slippageBps and every maxBps >= 0 the value clampSlippage
\* returns is <= maxBps, so the slippage passed to the Jupiter and Orca routes never
\* exceeds MAX_SLIPPAGE_BPS.
C30_SlippageClamped ==
    (trade.route # "none" /\ trade.maxBps.type = "number" /\ trade.maxBps.value >= 0) =>
        /\ trade.finalSlippage.type = "number"
        /\ trade.finalSlippage.value <= trade.maxBps.value

\* The connected sockets that watch the wallet.
Watchers(wallet) == {ws \in allClients : wsWallet[ws] = wallet}

\* C29: once all pending subscribe and unsubscribe calls have completed, a wallet has a
\* Solana account subscription if and only if at least one connected client watches it,
\* and every socket is in the set of at most one wallet, the one stored in ws.wallet.
C29_SubscriptionsMatchWatchers ==
    pendingRemovals = <<>> =>
        /\ \A wallet \in MessageWallets :
                /\ wallet \in DOMAIN accountSubscriptions <=> Watchers(wallet) # {}
                /\ (\E l \in listeners : l.wallet = wallet) <=> Watchers(wallet) # {}
        /\ \A ws \in Sockets, wallet \in DOMAIN clientsByWallet :
                ws \in clientsByWallet[wallet] => wsWallet[ws] = wallet

\* The price bounds are numbers with minPrice < maxPrice and the price is loaded.
RangeGiven ==
    /\ depositRatio.computed
    /\ currentPrice > 0
    /\ minPrice.type = "number"
    /\ maxPrice.type = "number"
    /\ minPrice.value < maxPrice.value

\* C21: for a range entirely above the current price (P <= Pa) the deposit ratio the
\* panel computes is single-sided in token A (the share of token B is 0), and for a
\* range entirely below the current price (P >= Pb) the share of token A is 0.
C21_SingleSided ==
    RangeGiven =>
        /\ currentPrice <= minPrice.value => depositRatio.ratioB = Percent(0)
        /\ currentPrice >= maxPrice.value => depositRatio.ratioA = Percent(0)

\* C22: for every currentPrice, minPrice and maxPrice calculateDepositRatio returns
\* ratioA and ratioB within [0, 100] that sum to exactly 100, and both are strictly
\* positive when minPrice < currentPrice < maxPrice.
C22_RatiosSumTo100 ==
    depositRatio.computed =>
        /\ depositRatio.ratioA.type = "number"
        /\ depositRatio.ratioB.type = "number"
        /\ depositRatio.ratioA.value \in 0..(100 * TenthsPerPercent)
        /\ depositRatio.ratioB.value \in 0..(100 * TenthsPerPercent)
        /\ depositRatio.ratioA.value + depositRatio.ratioB.value = 100 * TenthsPerPercent
        /\ (RangeGiven /\ minPrice.value < currentPrice /\ currentPrice < maxPrice.value) =>
                depositRatio.ratioA.value > 0 /\ depositRatio.ratioB.value > 0

\* chartBars returned buckets.
Charted == chart.computed /\ ~chart.null

\* The USD price of the i-th sample of liquidityData.
SampleUsd(i) ==
    TickPriceUsd(liquidityData[i], displayTokenA(tokens[1], tokens[2]), tokenAPriceUsd,
                 tokenBPriceUsd)

\* The samples whose USD price is positive and within [currentPrice * 0.8,
\* currentPrice * 1.2].
InWindow ==
    {i \in 1..Len(liquidityData) :
        /\ SampleUsd(i).num > 0
        /\ 10 * SampleUsd(i).num >= 8 * currentPrice * SampleUsd(i).den
        /\ 10 * SampleUsd(i).num <= 12 * currentPrice * SampleUsd(i).den}

\* The samples of the window whose USD price lies in bucket k: from its lower end up
\* to, not including, its upper end.
OwnedBy(k) ==
    {i \in InWindow :
        /\ 10 * SampleUsd(i).num * BucketCount
                >= (8 * BucketCount + 4 * k) * currentPrice * SampleUsd(i).den
        /\ 10 * SampleUsd(i).num * BucketCount
                < (8 * BucketCount + 4 * (k + 1)) * currentPrice * SampleUsd(i).den}

RECURSIVE SumLiquidity(_)
\* The sum of the liquidity of a set of samples.
SumLiquidity(samples) ==
    IF samples = {} THEN 0
    ELSE LET i == CHOOSE j \in samples : TRUE
         IN  liquidityData[i].liquidity + SumLiquidity(samples \ {i})

RECURSIVE SumBuckets(_)
\* The sum of the buckets from k on.
SumBuckets(k) == IF k = BucketCount THEN 0 ELSE chart.buckets[k] + SumBuckets(k + 1)

\* C23: in the real-data branch every sample adds its liquidity to at most one bucket,
\* the one its USD price lies in, and samples outside the window or with a price that
\* is not positive add to none; the sum of the buckets is <= the sum of the liquidity
\* of the samples in the window, and maxBucket is the largest bucket value.
C23_NoDoubleCounting ==
    (Charted /\ chart.source = "accumulated") =>
        /\ \A k \in Buckets : chart.buckets[k] = SumLiquidity(OwnedBy(k))
        /\ SumBuckets(0) <= SumLiquidity(InWindow)
        /\ \A k \in Buckets : chart.buckets[k] <= chart.maxBucket
        /\ \E k \in Buckets : chart.buckets[k] = chart.maxBucket

\* C23 witness: an accumulated chart of samples within and outside the window, two of
\* them in one bucket.
C23_Witness ==
    /\ Charted
    /\ chart.source = "accumulated"
    /\ InWindow # {}
    /\ InWindow # 1..Len(liquidityData)
    /\ chart.maxBucket > 3

\* C24: whenever fewer than 20 samples fall inside the window the aggregation uses the
\* synthetic fallback and flags the result, also when 20 or more samples were received.
C24_SparseWindowIsSynthetic ==
    (Charted /\ Cardinality(InWindow) < MinSamples) =>
        chart.isStatic /\ chart.source = "synthesized"

\* C25: the result is tagged isStatic exactly when its buckets were synthesized, and
\* for a pegged pair the result is always synthetic whatever the samples are.
C25_SyntheticIsTagged ==
    Charted =>
        /\ chart.isStatic <=> chart.source = "synthesized"
        /\ isPeggedPair(tokens[1], tokens[2]) => chart.isStatic

\* C25 witness: the synthetic chart of a pegged pair that has samples enough in the
\* window for the real branch.
C25_Witness ==
    /\ Charted
    /\ chart.isStatic
    /\ isPeggedPair(tokens[1], tokens[2])
    /\ Len(liquidityData) >= MinSamples

\* ---------------------------------------------------------------------------------------------
\* The fetches of one compose handler call, one await at a time, while the chain moves on.
\* ---------------------------------------------------------------------------------------------

\* The number of chain states the ledger records.
MaxSlots == 3

\* The liquidity the other positions of the pool hold in the range of the current tick.
OtherLiquidity == {0, 1}

\* The values of whirlpoolData.tickCurrentIndex, all inside the range of the position.
CurrentTicks == {-1, 0, 1}

ChainState(positionLiquidity, otherLiquidity, tick) ==
    [positionLiquidity |-> positionLiquidity,
     poolLiquidity |-> positionLiquidity + otherLiquidity,
     tickCurrentIndex |-> tick]

Current == ledger[Len(ledger)]

\* The account data as the chain state holds it.
PositionData(state) == [liquidity |-> state.positionLiquidity]
WhirlpoolData(state) ==
    [liquidity |-> state.poolLiquidity, tickCurrentIndex |-> state.tickCurrentIndex]

ComposeHandlers == {"createOrDeposit", "withdraw", "closePosition"}

\* The accounts a handler fetches, in the order of its awaits: createOrDeposit gets the pool and
\* then the wallet's positions, withdraw and closePosition get the position and then its pool.
Fetches(name) ==
    IF name = "createOrDeposit" THEN <<"whirlpool", "position">> ELSE <<"position", "whirlpool">>

NotFetched == [fetched |-> FALSE]

\* The fetcher of the context: the cached account when it has one, else the account as it is on
\* the chain at the time of the call.
FetchAccount(cache, account) ==
    IF account \in DOMAIN cache THEN cache[account]
    ELSE IF account = "position" THEN PositionData(Current)
    ELSE WhirlpoolData(Current)

InitFetch ==
    /\ NoChain
    /\ NoFlow
    /\ NoTrade
    /\ NoSocket
    /\ NoPanel
    /\ \E l \in 0..MaxLiq, o \in OtherLiquidity, t \in CurrentTicks :
        ledger = <<ChainState(l, o, t)>>
    /\ handlerCall = [name |-> "none"]

\* The request arrives: the handler builds a context and a client of its own.
Arrive(name) ==
    /\ IF handlerCall.name = "none" THEN TRUE ELSE handlerCall.step > 2
    /\ handlerCall' = [name |-> name, step |-> 0, arrivedAt |-> Len(ledger), cache |-> <<>>,
                position |-> NotFetched, whirlpool |-> NotFetched, quote |-> NotFetched]
    /\ UNCHANGED ledger
    /\ UNCHANGED <<composeVars, flowVars, tradeVars, socketVars, panelVars>>

\* One awaited client.getPool, client.getPosition or client.getPositions call returns.
Fetch ==
    /\ handlerCall.name # "none"
    /\ handlerCall.step < 2
    /\ LET account == Fetches(handlerCall.name)[handlerCall.step + 1]
           data == FetchAccount(handlerCall.cache, account)
           cached == [a \in DOMAIN handlerCall.cache \cup {account} |->
                        IF a = account THEN data ELSE handlerCall.cache[a]]
       IN  handlerCall' = [handlerCall EXCEPT !.step = @ + 1,
                                !.cache = cached,
                                !.position = IF account = "position" THEN data ELSE @,
                                !.whirlpool = IF account = "whirlpool" THEN data ELSE @]
    /\ UNCHANGED ledger
    /\ UNCHANGED <<composeVars, flowVars, tradeVars, socketVars, panelVars>>

\* The quote and the instructions are computed from the position and the pool fetched.
Quote ==
    /\ handlerCall.name # "none"
    /\ handlerCall.step = 2
    /\ handlerCall' =
        [handlerCall EXCEPT
                   !.step = 3,
                   !.quote = [liquidity |-> handlerCall.position.liquidity,
                              poolLiquidity |-> handlerCall.whirlpool.liquidity,
                              tickCurrentIndex |-> handlerCall.whirlpool.tickCurrentIndex]]
    /\ UNCHANGED ledger
    /\ UNCHANGED <<composeVars, flowVars, tradeVars, socketVars, panelVars>>

\* A swap lands on the chain: the current tick of the pool moves.
SwapLands(tick) ==
    /\ Len(ledger) \in 1..(MaxSlots - 1)
    /\ tick # Current.tickCurrentIndex
    /\ ledger' = Append(ledger, [Current EXCEPT !.tickCurrentIndex = tick])
    /\ UNCHANGED handlerCall
    /\ UNCHANGED <<composeVars, flowVars, tradeVars, socketVars, panelVars>>

\* A transaction sent earlier lands on the chain: the liquidity of the position changes, and the
\* liquidity of the pool with it.
LiquidityLands(delta) ==
    /\ Len(ledger) \in 1..(MaxSlots - 1)
    /\ Current.positionLiquidity + delta \in 0..MaxLiq
    /\ ledger' = Append(ledger, [Current EXCEPT !.positionLiquidity = @ + delta,
                                                !.poolLiquidity = @ + delta])
    /\ UNCHANGED handlerCall
    /\ UNCHANGED <<composeVars, flowVars, tradeVars, socketVars, panelVars>>

NextFetch ==
    \/ \E name \in ComposeHandlers : Arrive(name)
    \/ Fetch
    \/ Quote
    \/ \E tick \in CurrentTicks : SwapLands(tick)
    \/ \E delta \in {-1, 1} : LiquidityLands(delta)

SpecFetch == InitFetch /\ [][NextFetch]_vars

\* C26: the position and the pool a compose handler computes its quote from belong to one chain
\* state, and that chain state is one the chain was in after the request arrived.
C26_SingleSnapshot ==
    (handlerCall.name # "none" /\ handlerCall.step = 3) =>
        \E slot \in handlerCall.arrivedAt..Len(ledger) :
            /\ handlerCall.position = PositionData(ledger[slot])
            /\ handlerCall.whirlpool = WhirlpoolData(ledger[slot])

====
